---- MODULE Spec2Model ----
(***************************************************************************)
(* A model of the WooCommerce fingerprinting crawler                       *)
(* (Scripts/extract_woo_plugins_from_website.py) with its report, and of   *)
(* the AI adapter, the word-count splitter, the attachment organizer and   *)
(* the frontmatter splitter of the same repository, each with a            *)
(* specification of its own.                                               *)
(*                                                                         *)
(* Strings are modelled as sequences of tokens: an identifier such as      *)
(* "astra-child" is <<"astra", "-child">>, so that substring tests and     *)
(* str.replace act on tokens.  An asset URL is the sequence of its path    *)
(* segments, each segment preceded by "/" (the last one is the file name   *)
(* and has no "/" after it).  A page URL is a record of the parts          *)
(* urlparse tells apart.                                                   *)
(***************************************************************************)
EXTENDS Naturals, Integers, Sequences, FiniteSets, Bags, TLC

VARIABLES
    base_url,        \* self.base_url
    max_pages,       \* self.max_pages
    visited_urls,    \* self.visited_urls
    ev,              \* the evidence collections of the analyzer
    main_theme,      \* self.main_theme  (None when absent)
    child_theme,     \* self.child_theme (None when absent)
    urls_to_visit,   \* analyze_site's frontier
    pages_visited,   \* analyze_site's counter of analysed pages
    pc,              \* position of the run
    requests,        \* the HTTP requests issued by session.get, in order,
                     \* each with its outcome
    page,            \* the parsed page handed to the detectors
    ev_alt,          \* the evidence of a second analyzer that is given the
                     \* same page with the detectors or the assets reordered
    verbose,         \* self.verbose
    iter_seed,       \* what decides the order in which the sets of the
                     \* analyzer are iterated (hash seed, insertion history)
    report,          \* the text generate_report returned last
    saved,           \* the report files written by generate_report
    ai,              \* the AI adapter (woo_analysis_with_ai.py)
    sw,              \* a run of split_by_word_count.py
    org,             \* a run of organize_obsidian_attachments.py
    md               \* a call of split_markdown_file (split_markdown.py)

vars == <<base_url, max_pages, visited_urls, ev, main_theme, child_theme,
          urls_to_visit, pages_visited, pc, requests, page, ev_alt,
          verbose, iter_seed, report, saved, ai, sw, org, md>>

\* the variables only the comparison of detector orders uses
detectVars == <<page, ev_alt>>

\* the variables of the report generator
reportVars == <<verbose, iter_seed, report, saved>>

\* the state of the other scripts of the repository
toolVars == <<ai, sw, org, md>>

\* the value of a script's state while another script runs
Idle == [pc |-> "idle"]

(***************************************************************************)
(* Bounds                                                                  *)
(***************************************************************************)
MaxBudget == 3      \* largest page budget tried
MaxLinks == 2       \* most <a href> tags on one page

None == <<"None">>

Min(a, b) == IF a < b THEN a ELSE b

\* seq[:n]
Take(seq, n) == SubSeq(seq, 1, Min(n, Len(seq)))

\* seq[n:]
Drop(seq, n) == SubSeq(seq, Min(n, Len(seq)) + 1, Len(seq))

Range(seq) == {seq[i] : i \in 1..Len(seq)}

\* "tok in name" for a token of the alphabet
HasTok(name, tok) == \E i \in 1..Len(name) : name[i] = tok

\* name.replace(tok, "")
RemoveTok(name, tok) == SelectSeq(name, LAMBDA t : t # tok)

\* str.lower() on the tokens of the alphabet that have upper-case letters
LowerTok(t) ==
    CASE t = "Pop" -> "pop"
      [] t = "Sign" -> "sign"
      [] t = "Plugin" -> "plugin"
      [] t = "Slider" -> "slider"
      [] t = "WooCommerce" -> "woocommerce"
      [] t = "YITH Plugin" -> "yith plugin"
      [] t = "Elementor" -> "elementor"
      [] t = "Gutenberg" -> "gutenberg"
      [] t = "Divi" -> "divi"
      [] t = "Beaver Builder" -> "beaver builder"
      [] OTHER -> t

Lower(name) == [i \in 1..Len(name) |-> LowerTok(name[i])]

(***************************************************************************)
(* Page URLs                                                               *)
(***************************************************************************)
Url(scheme, netloc, path) ==
    [scheme |-> scheme, netloc |-> netloc, path |-> path, frag |-> FALSE]

\* an <a href> value: hash is href.startswith("#"), bad is a value urljoin
\* rejects with ValueError (such as "http://["), scheme = "" is a relative
\* reference
Href(hash, bad, scheme, netloc, path) ==
    [hash |-> hash, bad |-> bad, scheme |-> scheme, netloc |-> netloc,
     path |-> path]

Hrefs ==
    { Href(FALSE, FALSE, "", "", <<"shop">>),
      Href(FALSE, FALSE, "", "", <<"portfolio", "item">>),
      Href(FALSE, FALSE, "", "", <<"blog">>),
      Href(FALSE, FALSE, "https", "other", <<"shop">>),
      Href(TRUE, FALSE, "", "", <<>>),
      Href(FALSE, FALSE, "ftp", "site", <<"shop">>),
      Href(FALSE, TRUE, "http", "", <<>>) }

\* urljoin(current_url, href), for an href it accepts
urljoin(current_url, href) ==
    IF href.hash THEN [current_url EXCEPT !.frag = TRUE]
    ELSE IF href.scheme = ""
         THEN Url(current_url.scheme, current_url.netloc, href.path)
         ELSE Url(href.scheme, href.netloc, href.path)

\* full_url.startswith(("http://", "https://"))
IsHttp(url) == url.scheme \in {"http", "https"}

(***************************************************************************)
(* Evidence collections                                                    *)
(***************************************************************************)
\* an evidence pair (identifier, source); the source is a kind and the
\* strings it was formatted from
Pair(name, kind, val) == [name |-> name, kind |-> kind, val |-> val]

\* a custom code indicator f"{kind}: {val}"
Indicator(kind, val) == [kind |-> kind, val |-> val]

\* the collections as __init__ creates them
EmptyEvidence ==
    [plugins_detected |-> {},
     themes_detected |-> {},
     custom_post_types |-> {},
     shortcodes |-> {},
     rest_endpoints |-> {},
     custom_data_attributes |-> {},
     ajax_calls |-> {},
     gutenberg_blocks |-> {},
     custom_code_indicators |-> <<>>,
     css_classes |-> {}]

\* the set-valued collections
SetFields ==
    {"plugins_detected", "themes_detected", "custom_post_types", "shortcodes",
     "rest_endpoints", "custom_data_attributes", "ajax_calls",
     "gutenberg_blocks", "css_classes"}

(***************************************************************************)
(* Path-pattern catalog and the asset-path detector                        *)
(***************************************************************************)
\* r"/wp-content/plugins/([^/]+)/" and the others, as the literal segments
\* before the captured one
plugin_path_patterns ==
    << << <<"wp-content">>, <<"plugins">> >>,
       << <<"app">>, <<"plugins">> >>,
       << <<"plugins">> >>,
       << <<"wp">>, <<"plugins">> >> >>

theme_path_patterns ==
    << << <<"wp-content">>, <<"themes">> >>,
       << <<"app">>, <<"themes">> >>,
       << <<"themes">> >>,
       << <<"wp">>, <<"themes">> >> >>

\* the positions where the pattern matches: its literal segments, then a
\* non-empty segment that is followed by "/"
MatchPositions(pattern, asset_url) ==
    { i \in 1..Len(asset_url) :
        /\ i + Len(pattern) < Len(asset_url)
        /\ \A j \in 1..Len(pattern) : asset_url[i + j - 1] = pattern[j]
        /\ Len(asset_url[i + Len(pattern)]) > 0 }

\* re.search(pattern, asset_url) is not None
Matches(pattern, asset_url) == MatchPositions(pattern, asset_url) # {}

\* re.search(pattern, asset_url).group(1): the leftmost match
Group1(pattern, asset_url) ==
    LET i == CHOOSE i \in MatchPositions(pattern, asset_url) :
                 \A k \in MatchPositions(pattern, asset_url) : i <= k
    IN asset_url[i + Len(pattern)]

\* the pattern at which "for pattern in patterns: if match: ...; break"
\* stops, 0 when no pattern matches
FirstMatch(patterns, asset_url) ==
    IF \E k \in 1..Len(patterns) : Matches(patterns[k], asset_url)
    THEN CHOOSE k \in 1..Len(patterns) :
             /\ Matches(patterns[k], asset_url)
             /\ \A m \in 1..(k - 1) : ~Matches(patterns[m], asset_url)
    ELSE 0

ChildMarker == "-child"

InferredParent(parent_theme) == Pair(parent_theme, "inferred-parent", <<>>)

\* _check_asset_for_plugin without the break: every matching pattern adds a pair
CheckAssetPlugins_NoBreak(e, asset_url) ==
    LET ks == {k \in 1..Len(plugin_path_patterns) :
                  Matches(plugin_path_patterns[k], asset_url)}
    IN [e EXCEPT !.plugins_detected = @ \cup
           {Pair(Group1(plugin_path_patterns[k], asset_url), "url", asset_url) : k \in ks}]

\* _check_asset_for_plugin recording one source per plugin identifier only
CheckAssetPlugins_DedupByName(e, asset_url) ==
    LET k == FirstMatch(plugin_path_patterns, asset_url) IN
    IF k = 0 THEN e
    ELSE LET plugin_name == Group1(plugin_path_patterns[k], asset_url)
         IN IF \E q \in e.plugins_detected : q.name = plugin_name THEN e
            ELSE [e EXCEPT !.plugins_detected = @ \cup {Pair(plugin_name, "url", asset_url)}]

\* the plugin half of _check_asset_for_plugin
CheckAssetPlugins(e, asset_url) ==
    LET k == FirstMatch(plugin_path_patterns, asset_url) IN
    IF k = 0 THEN e
    ELSE LET plugin_name == Group1(plugin_path_patterns[k], asset_url)
             lowered == Lower(plugin_name)
         IN [e EXCEPT
               !.plugins_detected = @ \cup {Pair(plugin_name, "url", asset_url)},
               !.custom_code_indicators =
                   IF HasTok(lowered, "pop") \/ HasTok(lowered, "sign")
                   THEN Append(@, Indicator("Custom Plugin", <<plugin_name>>))
                   ELSE @]

\* the theme half adding the inferred parent without looking for the parent
CheckAssetThemes_AlwaysInfers(e, asset_url) ==
    LET k == FirstMatch(theme_path_patterns, asset_url) IN
    IF k = 0 THEN e
    ELSE LET theme_name == Group1(theme_path_patterns[k], asset_url)
             added == e.themes_detected \cup {Pair(theme_name, "url", asset_url)}
         IN [e EXCEPT
               !.themes_detected =
                   IF HasTok(theme_name, ChildMarker)
                   THEN added \cup {InferredParent(RemoveTok(theme_name, ChildMarker))}
                   ELSE added]

\* the theme half overwriting the theme evidence with the latest match
CheckAssetThemes_Replace(e, asset_url) ==
    LET k == FirstMatch(theme_path_patterns, asset_url) IN
    IF k = 0 THEN e
    ELSE [e EXCEPT !.themes_detected =
             {Pair(Group1(theme_path_patterns[k], asset_url), "url", asset_url)}]

\* the theme half without the child-theme inference
CheckAssetThemes_NoInference(e, asset_url) ==
    LET k == FirstMatch(theme_path_patterns, asset_url) IN
    IF k = 0 THEN e
    ELSE [e EXCEPT !.themes_detected = @ \cup
             {Pair(Group1(theme_path_patterns[k], asset_url), "url", asset_url)}]

\* the theme half of _check_asset_for_plugin, with the child-theme inference
CheckAssetThemes(e, asset_url) ==
    LET k == FirstMatch(theme_path_patterns, asset_url) IN
    IF k = 0 THEN e
    ELSE LET theme_name == Group1(theme_path_patterns[k], asset_url)
             parent_theme == RemoveTok(theme_name, ChildMarker)
             added == e.themes_detected \cup {Pair(theme_name, "url", asset_url)}
         IN [e EXCEPT
               !.themes_detected =
                   IF /\ HasTok(theme_name, ChildMarker)
                      /\ ~\E t \in added : t.name = parent_theme
                   THEN added \cup {InferredParent(parent_theme)}
                   ELSE added]

check_asset_for_plugin(e, asset_url) ==
    CheckAssetThemes(CheckAssetPlugins(e, asset_url), asset_url)

(***************************************************************************)
(* detect_plugins_from_html                                                *)
(*                                                                         *)
(* A parsed page (soup) is a record:                                       *)
(*   scripts  <script src=...> tags, [src, id]  (id = <<>> when absent)    *)
(*   links    <link href=...> tags, [href, id]                             *)
(*   tags     the elements, [tag, class, attrs], attrs a sequence of       *)
(*            [attr, value] without the class attribute                    *)
(*   comments the strings soup.find_all(string=...) selects               *)
(*   metas    <meta> tags, [name, content]                                 *)
(*   inline   <script> tags with their text                                *)
(*   anchors  the href values of the <a href=...> tags                     *)
(***************************************************************************)
\* the keys of self.known_plugins
known_plugins ==
    { <<"woocommerce">>, <<"jetpack">>, <<"gravityforms">>, <<"elementor">>,
      <<"js_composer">>, <<"wp-super-cache">>, <<"w3-total-cache">>,
      <<"akismet">>, <<"contact-form-7">>, <<"wordpress-seo">>,
      <<"revslider">>, <<"wc-product-bundles">>,
      <<"woocommerce-gateway-stripe">>,
      <<"woocommerce-gateway-paypal-express-checkout">>,
      <<"wc-ajax-product-filter">>, <<"wc-quantity-plus-minus-buttons">>,
      <<"woocommerce-composite-products">>, <<"woocommerce-bookings">>,
      <<"woocommerce-subscriptions">>, <<"woocommerce-product-addons">>,
      <<"woocommerce-photography">>, <<"woocommerce-memberships">>,
      <<"klaviyo">>, <<"mailchimp-for-woocommerce">>,
      <<"woocommerce-shipstation-integration">>, <<"woocommerce-square">>,
      <<"ups-woocommerce-shipping">>,
      <<"woocommerce-gateway-authorize-net-cim">>,
      <<"woocommerce-advanced-shipping">> }

\* the "id" check on a script (suffix "-js") or link (suffix "-css") tag
CheckTagId(e, id, suffix, kind) ==
    LET potential_plugin == RemoveTok(id, suffix) IN
    IF Len(id) > 0 /\ HasTok(id, suffix) /\ potential_plugin \in known_plugins
    THEN [e EXCEPT !.plugins_detected = @ \cup {Pair(potential_plugin, kind, <<id>>)}]
    ELSE e

RECURSIVE CheckScripts(_, _)
\* for script in all_scripts: ...
CheckScripts(e, scripts) ==
    IF scripts = <<>> THEN e
    ELSE CheckScripts(
             CheckTagId(check_asset_for_plugin(e, Head(scripts).src),
                        Head(scripts).id, "-js", "Script ID"),
             Tail(scripts))

RECURSIVE CheckLinks(_, _)
\* for link in all_links: ...
CheckLinks(e, links) ==
    IF links = <<>> THEN e
    ELSE CheckLinks(
             CheckTagId(check_asset_for_plugin(e, Head(links).href),
                        Head(links).id, "-css", "Link ID"),
             Tail(links))

\* plugin_patterns of the CSS-class check, with pattern_to_plugin's labels
plugin_patterns == <<"wc-", "yith-", "elementor-", "wp-block-", "et_", "fl-">>

pattern_to_plugin(pattern) ==
    CASE pattern = "wc-" -> <<"WooCommerce">>
      [] pattern = "yith-" -> <<"YITH Plugin">>
      [] pattern = "elementor-" -> <<"Elementor">>
      [] pattern = "wp-block-" -> <<"Gutenberg">>
      [] pattern = "et_" -> <<"Divi">>
      [] pattern = "fl-" -> <<"Beaver Builder">>

\* re.match("^" + prefix, css_class), cls.startswith(prefix)
StartsWith(css_class, prefix) == Len(css_class) > 0 /\ css_class[1] = prefix

\* one css class: css_classes.add and _add_potential_plugin_from_pattern
CheckClass(e, css_class) ==
    [e EXCEPT
       !.css_classes = @ \cup {css_class},
       !.plugins_detected = @ \cup
           { Pair(pattern_to_plugin(plugin_patterns[k]), "CSS Class", <<css_class>>) :
               k \in {k \in 1..Len(plugin_patterns) :
                         StartsWith(css_class, plugin_patterns[k])} }]

\* every class of every tag, in document order
RECURSIVE AllClasses(_)
AllClasses(tags) ==
    IF tags = <<>> THEN <<>> ELSE Head(tags).class \o AllClasses(Tail(tags))

RECURSIVE CheckClasses(_, _)
CheckClasses(e, classes) ==
    IF classes = <<>> THEN e
    ELSE CheckClasses(CheckClass(e, Head(classes)), Tail(classes))

PreviewLen == 100
CommentLen == 50

\* re.search(r"plugin ['\"](.*?)['\"]", text): <<>> when there is no match,
\* else <<group(1)>>; a quote is the token "'"
QuotedPlugin(text) ==
    LET starts == { i \in 1..Len(text) :
                      /\ text[i] = "plugin"
                      /\ i + 1 <= Len(text) /\ text[i + 1] = "'"
                      /\ \E j \in (i + 2)..Len(text) : text[j] = "'" }
    IN IF starts = {} THEN <<>>
       ELSE LET i == CHOOSE i \in starts : \A k \in starts : i <= k
                j == CHOOSE j \in (i + 2)..Len(text) :
                         /\ text[j] = "'"
                         /\ \A k \in (i + 2)..(j - 1) : text[k] # "'"
            IN << SubSeq(text, i + 2, j - 1) >>

\* one comment of the HTML-comment check
CheckComment(e, comment) ==
    IF ~HasTok(Lower(comment), "plugin") THEN e
    ELSE LET plugin_name_match == QuotedPlugin(Lower(comment))
             e1 == [e EXCEPT !.custom_code_indicators =
                        Append(@, Indicator("HTML Comment", <<Take(comment, PreviewLen)>>))]
         IN IF plugin_name_match = <<>> THEN e1
            ELSE [e1 EXCEPT !.plugins_detected = @ \cup
                     {Pair(plugin_name_match[1], "Comment", <<Take(comment, CommentLen)>>)}]

RECURSIVE CheckComments(_, _)
CheckComments(e, comments) ==
    IF comments = <<>> THEN e
    ELSE CheckComments(CheckComment(e, Head(comments)), Tail(comments))

\* the Gutenberg check on one element
CheckBlock(e, tag) ==
    LET block_name == SelectSeq(tag.class, LAMBDA cls : StartsWith(cls, "wp-block-")) IN
    IF /\ tag.tag = "div"
       /\ \E i \in 1..Len(tag.class) : HasTok(tag.class[i], "wp-block-")
       /\ block_name # <<>>
    THEN [e EXCEPT !.gutenberg_blocks = @ \cup {block_name[1]}]
    ELSE e

RECURSIVE CheckBlocks(_, _)
CheckBlocks(e, tags) ==
    IF tags = <<>> THEN e
    ELSE CheckBlocks(CheckBlock(e, Head(tags)), Tail(tags))

\* the slugs the custom-post-type check leaves out
BuiltinPostTypes == {"category", "tag", "product", "post", "page"}

\* re.search(r"/([a-z0-9-_]+)/[a-z0-9-_]+/?$", href) on one <a href>: the
\* segment before the last one of the path
CheckPostType(e, href) ==
    IF /\ ~href.hash /\ ~href.bad
       /\ Len(href.path) >= 2
       /\ href.path[Len(href.path) - 1] \notin BuiltinPostTypes
    THEN [e EXCEPT !.custom_post_types = @ \cup {href.path[Len(href.path) - 1]}]
    ELSE e

RECURSIVE CheckPostTypes(_, _)
CheckPostTypes(e, anchors) ==
    IF anchors = <<>> THEN e
    ELSE CheckPostTypes(CheckPostType(e, Head(anchors)), Tail(anchors))

\* the meta generator check on one <meta>
CheckMeta(e, meta) ==
    IF /\ Len(meta.name) > 0 /\ HasTok(meta.name, "generator")
       /\ HasTok(Lower(meta.content), "plugin")
    THEN [e EXCEPT !.plugins_detected = @ \cup {Pair(meta.content, "Meta Generator Tag", <<>>)}]
    ELSE e

RECURSIVE CheckMetas(_, _)
CheckMetas(e, metas) ==
    IF metas = <<>> THEN e
    ELSE CheckMetas(CheckMeta(e, Head(metas)), Tail(metas))

\* soup.find("div", {"class": cls}) is not None
HasDiv(soup, cls) ==
    \E i \in 1..Len(soup.tags) :
        soup.tags[i].tag = "div" /\ <<cls>> \in Range(soup.tags[i].class)

\* the WooCommerce signatures searched in the HTML itself
CheckSignatures(e, soup) ==
    [e EXCEPT !.plugins_detected = @
        \cup (IF HasDiv(soup, "widget_shopping_cart_content")
              THEN {Pair(<<"woocommerce">>, "Shopping Cart Widget", <<>>)} ELSE {})
        \cup (IF HasDiv(soup, "woocommerce-product-gallery")
              THEN {Pair(<<"woocommerce">>, "Product Gallery", <<>>)} ELSE {})]

detect_plugins_from_html(e, soup) ==
    LET e1 == CheckScripts(e, soup.scripts)
        e2 == CheckLinks(e1, soup.links)
        e3 == CheckClasses(e2, AllClasses(soup.tags))
        e4 == CheckComments(e3, soup.comments)
        e5 == CheckBlocks(e4, soup.tags)
        e6 == CheckPostTypes(e5, soup.anchors)
        e7 == CheckMetas(e6, soup.metas)
    IN CheckSignatures(e7, soup)

(***************************************************************************)
(* detect_custom_functionality                                             *)
(*                                                                         *)
(* An inline <script> is a record:                                         *)
(*   src          TRUE when the tag has a src attribute                    *)
(*   type         "application/json" or another type                       *)
(*   string       script.string as tokens, <<>> when empty                 *)
(*   len          len(script.text) in characters                           *)
(*   ajax_action  <<>> or <<group(2)>> of the action= regular expression   *)
(*   rest         <<>> or <<group(1), group(2)>> of the /wp-json/ one      *)
(*   shortcodes   the names re.findall returns for [name ...]              *)
(*   json_ok      TRUE when json.loads accepts the string                  *)
(***************************************************************************)
\* the attribute-name parts that mark a common plugin's data attribute
CommonDataParts == {"elementor", "woocommerce", "product"}

\* one attribute of one element
CheckAttr(e, a) ==
    IF /\ StartsWith(a.attr, "data-")
       /\ ~\E x \in CommonDataParts : HasTok(a.attr, x)
    THEN [e EXCEPT !.custom_data_attributes = @ \cup {[attr |-> a.attr, value |-> a.value]}]
    ELSE e

RECURSIVE CheckAttrs(_, _)
CheckAttrs(e, attrs) ==
    IF attrs = <<>> THEN e
    ELSE CheckAttrs(CheckAttr(e, Head(attrs)), Tail(attrs))

\* every attribute of every tag, in document order
RECURSIVE AllAttrs(_)
AllAttrs(tags) ==
    IF tags = <<>> THEN <<>> ELSE Head(tags).attrs \o AllAttrs(Tail(tags))

\* the AJAX, REST and shortcode checks on one script
CheckScriptText(e, script) ==
    IF script.string = <<>> THEN e
    ELSE
      LET e1 == IF ~HasTok(script.string, "admin-ajax.php") THEN e
                ELSE [e EXCEPT !.ajax_calls = @ \cup
                        {IF script.ajax_action # <<>>
                         THEN [kind |-> "AJAX action", val |-> script.ajax_action[1]]
                         ELSE IF script.len > PreviewLen
                              THEN [kind |-> "text...", val |-> Take(script.string, PreviewLen)]
                              ELSE [kind |-> "text", val |-> script.string]}]
          e2 == IF HasTok(script.string, "/wp-json/") /\ script.rest # <<>>
                THEN [e1 EXCEPT !.rest_endpoints = @ \cup {script.rest}]
                ELSE e1
      IN [e2 EXCEPT !.shortcodes = @ \cup Range(script.shortcodes)]

RECURSIVE CheckScriptTexts(_, _)
CheckScriptTexts(e, inline) ==
    IF inline = <<>> THEN e
    ELSE CheckScriptTexts(CheckScriptText(e, Head(inline)), Tail(inline))

\* str(json.loads(text)): Python's rendering of the parsed literals
JsonStrTok(t) ==
    CASE t = "true" -> "True"
      [] t = "false" -> "False"
      [] t = "null" -> "None"
      [] OTHER -> t

JsonStr(text) == [i \in 1..Len(text) |-> JsonStrTok(text[i])]

\* the inline JSON check on one script; json.loads raising is caught by the
\* bare except and the script is passed over
CheckJson(e, script) ==
    IF script.type = "application/json" /\ script.string # <<>> /\ script.json_ok
    THEN [e EXCEPT !.custom_code_indicators =
             Append(@, Indicator("JSON data block", <<Take(JsonStr(script.string), PreviewLen)>>))]
    ELSE e

RECURSIVE CheckJsons(_, _)
CheckJsons(e, inline) ==
    IF inline = <<>> THEN e
    ELSE CheckJsons(CheckJson(e, Head(inline)), Tail(inline))

\* the custom-JS heuristic on one script
CheckCustomJs(e, script) ==
    IF /\ ~script.src /\ script.string # <<>>
       /\ script.len > PreviewLen
       /\ ~HasTok(Take(script.string, PreviewLen), "jQuery")
       /\ ~HasTok(Take(script.string, PreviewLen), "function(")
    THEN [e EXCEPT !.custom_code_indicators =
             Append(@, Indicator("Custom JS", <<Take(script.string, PreviewLen)>>))]
    ELSE e

RECURSIVE CheckCustomJss(_, _)
CheckCustomJss(e, inline) ==
    IF inline = <<>> THEN e
    ELSE CheckCustomJss(CheckCustomJs(e, Head(inline)), Tail(inline))

detect_custom_functionality(e, soup) ==
    LET e1 == CheckAttrs(e, AllAttrs(soup.tags))
        e2 == CheckScriptTexts(e1, soup.inline)
        e3 == CheckJsons(e2, soup.inline)
    IN CheckCustomJss(e3, soup.inline)

(***************************************************************************)
(* The pages a site may serve                                              *)
(***************************************************************************)
Seg(s) == <<s>>

WooCartJs == <<Seg("wp-content"), Seg("plugins"), Seg("woocommerce"), Seg("assets"), Seg("cart.js")>>
WooJs == <<Seg("wp-content"), Seg("plugins"), Seg("woocommerce"), Seg("assets"), Seg("app.js")>>
PopJs == <<Seg("app"), Seg("plugins"), <<"Pop", "signs">>, Seg("x.js")>>
NestedJs == <<Seg("plugins"), Seg("jetpack"), Seg("wp-content"), Seg("plugins"), Seg("akismet"), Seg("a.js")>>
NoSlashJs == <<Seg("wp-content"), Seg("plugins"), Seg("woocommerce")>>
PlainJs == <<Seg("static"), Seg("main.js")>>
ChildCss == <<Seg("wp-content"), Seg("themes"), <<"astra", "-child">>, Seg("style.css")>>
ChildRtlCss == <<Seg("wp-content"), Seg("themes"), <<"astra", "-child">>, Seg("rtl.css")>>
ParentCss == <<Seg("wp-content"), Seg("themes"), <<"astra">>, Seg("style.css")>>
ParentRtlCss == <<Seg("wp-content"), Seg("themes"), <<"astra">>, Seg("rtl.css")>>
GrandChildCss == <<Seg("themes"), <<"astra", "-child", "-child">>, Seg("style.css")>>

AssetUrls ==
    {WooJs, WooCartJs, PopJs, NestedJs, NoSlashJs, PlainJs, ChildCss, ChildRtlCss,
     ParentCss, ParentRtlCss, GrandChildCss}

NoId == <<>>

Tag(tag, class, attrs) == [tag |-> tag, class |-> class, attrs |-> attrs]

Attr(attr, value) == [attr |-> attr, value |-> value]

Script(src, type, string, len, ajax_action, rest, shortcodes, json_ok) ==
    [src |-> src, type |-> type, string |-> string, len |-> len,
     ajax_action |-> ajax_action, rest |-> rest, shortcodes |-> shortcodes,
     json_ok |-> json_ok]

Soup(scripts, links, tags, comments, metas, inline) ==
    [scripts |-> scripts, links |-> links, tags |-> tags,
     comments |-> comments, metas |-> metas, inline |-> inline,
     anchors |-> <<>>]

EmptyPage == Soup(<<>>, <<>>, <<>>, <<>>, <<>>, <<>>)

ShopPage ==
    Soup(<< [src |-> WooJs, id |-> <<"woocommerce", "-js">>],
            [src |-> WooCartJs, id |-> <<"main", "-js">>],
            [src |-> PopJs, id |-> NoId] >>,
         << [href |-> NestedJs, id |-> <<"elementor", "-css">>],
            [href |-> NoSlashJs, id |-> NoId],
            [href |-> ParentCss, id |-> NoId] >>,
         << Tag("div", << <<"wc-", "cart">>, <<"widget_shopping_cart_content">> >>,
                << Attr(<<"data-", "foo">>, <<"1">>),
                   Attr(<<"data-", "product", "_id">>, <<"2">>),
                   Attr(<<"id">>, <<"cart">>) >>),
            Tag("div", << <<"has-bg">>, <<"wp-block-", "cover">> >>, <<>>),
            Tag("span", << <<"wp-block-", "label">> >>, <<>>) >>,
         << <<"<!--", "Plugin", "'", "seo", "'", "v2">> >>,
         << [name |-> <<"generator">>, content |-> <<"Slider", "Plugin">>],
            [name |-> <<"viewport">>, content |-> <<"width">>] >>,
         << Script(FALSE, "application/json", <<"{", "true", "}">>, 20, <<>>, <<>>, <<>>, TRUE) >>)

ChildThemePage ==
    Soup(<< [src |-> PlainJs, id |-> NoId] >>,
         << [href |-> ChildCss, id |-> NoId],
            [href |-> ChildRtlCss, id |-> NoId] >>,
         <<>>, <<>>, <<>>, <<>>)

ParentFirstPage ==
    Soup(<<>>,
         << [href |-> ParentCss, id |-> NoId],
            [href |-> ChildCss, id |-> NoId] >>,
         <<>>, <<>>, <<>>, <<>>)

GrandChildPage ==
    Soup(<<>>, << [href |-> GrandChildCss, id |-> NoId] >>, <<>>, <<>>, <<>>, <<>>)

ScriptPage ==
    Soup(<<>>, << [href |-> ParentRtlCss, id |-> NoId] >>,
         << Tag("div", << <<"woocommerce-product-gallery">> >>,
                << Attr(<<"data-", "elementor", "-id">>, <<"7">>),
                   Attr(<<"data-", "bar">>, <<"x">>) >>) >>,
         << <<"<!--", "cached">> >>,
         <<>>,
         << Script(FALSE, "application/json", <<"{", "oops">>, 10, <<>>, <<>>, <<>>, FALSE),
            Script(FALSE, "text/javascript",
                   <<"fetch", "admin-ajax.php", "/wp-json/", "[", "gallery", "]">>,
                   150, <<>>, <<"wc", "v3">>, <<"gallery">>, FALSE),
            Script(FALSE, "text/javascript", <<"jQuery", "ready">>, 200, <<>>, <<>>, <<>>, FALSE),
            Script(TRUE, "text/javascript", <<>>, 0, <<>>, <<>>, <<>>, FALSE) >>)

Bodies ==
    {EmptyPage, ShopPage, ChildThemePage, ParentFirstPage, GrandChildPage,
     ScriptPage}

RECURSIVE SeqsUpTo(_, _)
\* the sequences over S of length at most n
SeqsUpTo(S, n) ==
    IF n = 0 THEN {<<>>}
    ELSE LET shorter == SeqsUpTo(S, n - 1)
         IN shorter \cup {Append(q, x) : q \in shorter, x \in S}

\* the parsed documents: a body with at most MaxLinks <a href> tags
Soups ==
    {[b EXCEPT !.anchors = a] : b \in Bodies, a \in SeqsUpTo(Hrefs, MaxLinks)}

(***************************************************************************)
(* fetch_page and extract_links                                            *)
(***************************************************************************)
\* what session.get does: a 200 response, another status, or an exception
\* (timeout, connection error)
Outcomes == {"ok", "status", "error"}

\* self.visited_urls after fetch_page(url) on a url not yet visited: the add
\* follows session.get inside the try block
VisitedAfterFetch(visited, url, outcome) ==
    IF outcome = "error" THEN visited ELSE visited \cup {url}

\* one session.get call and how it ended
Request(url, outcome) == [url |-> url, outcome |-> outcome]

\* urlparse(self.base_url).netloc
Domain(url) == url.netloc

\* extract_links raises when urljoin rejects an href
ExtractRaises(soup) == \E i \in 1..Len(soup.anchors) : soup.anchors[i].bad

RECURSIVE ExtractFrom(_, _, _, _)
\* the loop of extract_links over the <a href> tags, in document order
ExtractFrom(anchors, current_url, domain, visited) ==
    IF anchors = <<>> THEN <<>>
    ELSE LET href == Head(anchors)
             full_url == urljoin(current_url, href)
             skip == \/ full_url.netloc # domain
                     \/ href.hash
                     \/ ~IsHttp(full_url)
                     \/ full_url \in visited
         IN (IF skip THEN <<>> ELSE <<full_url>>)
                \o ExtractFrom(Tail(anchors), current_url, domain, visited)

\* extract_links without the visited-set filter
extract_links_IgnoresVisited(soup, current_url, base, visited) ==
    ExtractFrom(soup.anchors, current_url, Domain(base), {})

extract_links(soup, current_url, base, visited) ==
    ExtractFrom(soup.anchors, current_url, Domain(base), visited)

(***************************************************************************)
(* Theme derivation at the end of analyze_site                             *)
(***************************************************************************)
RECURSIVE Orders(_)
\* the orders in which a set may be iterated
Orders(S) ==
    IF S = {} THEN {<<>>}
    ELSE UNION {{<<x>> \o q : q \in Orders(S \ {x})} : x \in S}

\* [main, child] computed from theme_names, the identifiers of the theme
\* evidence in iteration order
DeriveThemes(theme_names) ==
    LET child_themes == SelectSeq(theme_names, LAMBDA n : HasTok(n, ChildMarker))
        non_child_themes == SelectSeq(theme_names, LAMBDA n : ~HasTok(n, ChildMarker))
    IN IF Len(theme_names) = 0 THEN [main |-> None, child |-> None]
       ELSE IF Len(theme_names) = 1 THEN [main |-> theme_names[1], child |-> None]
       ELSE IF child_themes # <<>>
            THEN LET parent_theme == RemoveTok(child_themes[1], ChildMarker)
                 IN [child |-> child_themes[1],
                     main |-> IF parent_theme \in Range(theme_names) THEN parent_theme
                              ELSE IF non_child_themes # <<>> THEN non_child_themes[1]
                              ELSE theme_names[1]]
            ELSE [main |-> theme_names[1], child |-> theme_names[2]]

(***************************************************************************)
(* analyze_site                                                            *)
(***************************************************************************)
BaseUrls == {Url("https", "site", <<>>), Url("", "site", <<>>)}

Init ==
    /\ base_url \in BaseUrls
    /\ max_pages \in 0..MaxBudget
    /\ visited_urls = {}
    /\ ev = EmptyEvidence
    /\ main_theme = None
    /\ child_theme = None
    /\ urls_to_visit = <<>>
    /\ pages_visited = 0
    /\ pc = "new"
    /\ requests = <<>>
    /\ page = EmptyPage
    /\ ev_alt = EmptyEvidence
    /\ verbose = FALSE
    /\ iter_seed = 0
    /\ report = <<>>
    /\ saved = <<>>
    /\ ai = Idle
    /\ sw = Idle
    /\ org = Idle
    /\ md = Idle

\* the first lines of analyze_site: the scheme is added when missing and the
\* frontier starts with the homepage
Start ==
    /\ pc = "new"
    /\ base_url' = IF IsHttp(base_url) THEN base_url
                   ELSE [base_url EXCEPT !.scheme = "https"]
    /\ urls_to_visit' = <<base_url'>>
    /\ pages_visited' = 0
    /\ pc' = "running"
    /\ UNCHANGED <<max_pages, visited_urls, ev, main_theme, child_theme, requests>>
    /\ UNCHANGED <<detectVars, reportVars, toolVars>>

\* the loop condition with <= for <
LoopCond_OffByOne == urls_to_visit # <<>> /\ pages_visited <= max_pages

\* while urls_to_visit and pages_visited < self.max_pages
LoopCond == urls_to_visit # <<>> /\ pages_visited < max_pages

\* an iteration whose URL is already visited: fetch_page returns None at once
SkipVisited ==
    /\ pc = "running" /\ LoopCond
    /\ Head(urls_to_visit) \in visited_urls
    /\ urls_to_visit' = Tail(urls_to_visit)
    /\ UNCHANGED <<base_url, max_pages, visited_urls, ev, main_theme,
                   child_theme, pages_visited, pc, requests>>
    /\ UNCHANGED <<detectVars, reportVars, toolVars>>

\* a failed fetch counted as an analysed page
FetchFails_CountsPage ==
    /\ pc = "running" /\ LoopCond
    /\ Head(urls_to_visit) \notin visited_urls
    /\ \E outcome \in Outcomes \ {"ok"} :
          /\ visited_urls' = VisitedAfterFetch(visited_urls, Head(urls_to_visit), outcome)
          /\ requests' = Append(requests, Request(Head(urls_to_visit), outcome))
    /\ urls_to_visit' = Tail(urls_to_visit)
    /\ pages_visited' = pages_visited + 1
    /\ UNCHANGED <<base_url, max_pages, ev, main_theme, child_theme, pc>>
    /\ UNCHANGED <<detectVars, reportVars, toolVars>>

\* an iteration whose fetch fails: fetch_page returns None
FetchFails ==
    /\ pc = "running" /\ LoopCond
    /\ Head(urls_to_visit) \notin visited_urls
    /\ \E outcome \in Outcomes \ {"ok"} :
          /\ visited_urls' = VisitedAfterFetch(visited_urls, Head(urls_to_visit), outcome)
          /\ requests' = Append(requests, Request(Head(urls_to_visit), outcome))
    /\ urls_to_visit' = Tail(urls_to_visit)
    /\ UNCHANGED <<base_url, max_pages, ev, main_theme, child_theme,
                   pages_visited, pc>>
    /\ UNCHANGED <<detectVars, reportVars, toolVars>>

\* the evidence after both detectors ran on the page, in analyze_site's order
Detect(e, soup) ==
    detect_custom_functionality(detect_plugins_from_html(e, soup), soup)

\* the links put in front of the frontier: a depth-first crawl
Enqueue_Prepend(frontier, new_links, budget, visited_count) ==
    Take(new_links, budget - visited_count) \o frontier

\* the frontier after an analysed page: the links are added while budget is left
Enqueue(frontier, new_links, budget, visited_count) ==
    frontier \o Take(new_links, budget - visited_count)

\* an iteration that analyses a page
AnalysePage ==
    /\ pc = "running" /\ LoopCond
    /\ Head(urls_to_visit) \notin visited_urls
    /\ \E soup \in Soups :
         LET current_url == Head(urls_to_visit)
             visited == VisitedAfterFetch(visited_urls, current_url, "ok")
         IN /\ ~(pages_visited + 1 < max_pages /\ ExtractRaises(soup))
            /\ visited_urls' = visited
            /\ pages_visited' = pages_visited + 1
            /\ ev' = Detect(ev, soup)
            /\ urls_to_visit' =
                 IF pages_visited + 1 < max_pages
                 THEN Enqueue(Tail(urls_to_visit),
                              extract_links(soup, current_url, base_url, visited),
                              max_pages, pages_visited + 1)
                 ELSE Tail(urls_to_visit)
    /\ requests' = Append(requests, Request(Head(urls_to_visit), "ok"))
    /\ UNCHANGED <<base_url, max_pages, main_theme, child_theme, pc>>
    /\ UNCHANGED <<detectVars, reportVars, toolVars>>

\* an iteration in which extract_links raises ValueError: nothing in
\* analyze_site catches it and the run ends with the exception
AnalysePageRaises ==
    /\ pc = "running" /\ LoopCond
    /\ Head(urls_to_visit) \notin visited_urls
    /\ \E soup \in Soups :
         /\ pages_visited + 1 < max_pages /\ ExtractRaises(soup)
         /\ ev' = Detect(ev, soup)
    /\ visited_urls' = VisitedAfterFetch(visited_urls, Head(urls_to_visit), "ok")
    /\ pages_visited' = pages_visited + 1
    /\ urls_to_visit' = Tail(urls_to_visit)
    /\ requests' = Append(requests, Request(Head(urls_to_visit), "ok"))
    /\ pc' = "raised"
    /\ UNCHANGED <<base_url, max_pages, main_theme, child_theme>>
    /\ UNCHANGED <<detectVars, reportVars, toolVars>>

\* the derivation indented into the loop body: it runs while the crawl runs
Derive_InLoop ==
    /\ pc = "running"
    /\ \E order \in Orders(ev.themes_detected) :
         LET d == DeriveThemes([i \in 1..Len(order) |-> order[i].name])
         IN main_theme' = d.main /\ child_theme' = d.child
    /\ UNCHANGED <<base_url, max_pages, visited_urls, ev, urls_to_visit,
                   pages_visited, requests, pc>>
    /\ UNCHANGED <<detectVars, reportVars, toolVars>>

\* the loop has exited: main and child theme are derived and the run is done
Derive ==
    /\ pc = "running" /\ ~LoopCond
    /\ \E order \in Orders(ev.themes_detected) :
         LET d == DeriveThemes([i \in 1..Len(order) |-> order[i].name])
         IN main_theme' = d.main /\ child_theme' = d.child
    /\ pc' = "done"
    /\ UNCHANGED <<base_url, max_pages, visited_urls, ev, urls_to_visit,
                   pages_visited, requests>>
    /\ UNCHANGED <<detectVars, reportVars, toolVars>>

Next ==
    \/ Start
    \/ SkipVisited
    \/ FetchFails
    \/ AnalysePage
    \/ AnalysePageRaises
    \/ Derive

Spec == Init /\ [][Next]_vars

\* the loop of analyze_site is sequential code: a step that can be taken is taken
FairSpec == Spec /\ WF_vars(Next)

(***************************************************************************)
(* Properties of the crawl                                                 *)
(***************************************************************************)
\* the requests that were answered with a 200 response
OkRequests == {i \in 1..Len(requests) : requests[i].outcome = "ok"}

\* the run has ended, with or without an exception
Ended == pc \in {"done", "raised"}

\* C1 as claimed: the number of HTTP fetch attempts of one analyze_site run
\* is at most the page budget.
C1_FetchAttemptsWithinBudget == Len(requests) <= max_pages

\* C1 as amended: the number of fetch attempts answered with a 200 response,
\* which are the pages analysed, is at most the page budget; failed attempts
\* are not counted against it.
C1_AnalysedPagesWithinBudget ==
    /\ Cardinality(OkRequests) <= max_pages
    /\ Cardinality(OkRequests) = pages_visited

\* a finished run that analysed as many pages as the budget allows and
\* issued more requests than that
C1_Witness ==
    /\ pc = "done"
    /\ max_pages > 0
    /\ Cardinality(OkRequests) = max_pages
    /\ Len(requests) > max_pages

\* C2: within one run no URL is requested over HTTP more than once, whatever
\* the outcome of its first request.
C2_NoUrlRequestedTwice ==
    \A i, j \in 1..Len(requests) :
        i # j => requests[i].url # requests[j].url

\* C3: every fetch_page call on a URL not yet visited leaves the URL in the
\* visited set, whatever the outcome of the request.
C3_RequestedUrlsAreVisited ==
    \A i \in 1..Len(requests) : requests[i].url \in visited_urls

\* C4: analyze_site eventually reaches DONE, for every budget and every site.
C4_EventuallyDone == <>(pc = "done")

\* C5: a failure raised while processing a fetched page is contained to that
\* page: no iteration ends the run, the crawl goes on.
C5_PageFailureContained == [][pc = "running" => pc' \in {"running", "done"}]_vars

\* seq is the beginning of longer
IsPrefix(seq, longer) ==
    Len(seq) <= Len(longer) /\ SubSeq(longer, 1, Len(seq)) = seq

\* C6: across every step of the crawl each evidence collection and the
\* visited set only grows: nothing that was in it is removed.
C6_EvidenceOnlyGrows ==
    [][/\ \A f \in SetFields : ev[f] \subseteq ev'[f]
       /\ IsPrefix(ev.custom_code_indicators, ev'.custom_code_indicators)
       /\ visited_urls \subseteq visited_urls']_vars

\* a crawl in its third page or later that holds evidence of several kinds
C6_Witness ==
    /\ pages_visited >= 2
    /\ Cardinality(visited_urls) >= 2
    /\ Cardinality(ev.plugins_detected) >= 2
    /\ Cardinality(ev.themes_detected) >= 2
    /\ Len(ev.custom_code_indicators) >= 2
    /\ ev.css_classes # {}
    /\ ev.custom_data_attributes # {}

\* the [main, child] results the derivation can give for a theme evidence set
Derivations(themes) ==
    {DeriveThemes([i \in 1..Len(order) |-> order[i].name]) : order \in Orders(themes)}

\* C7: main_theme and child_theme are absent while the crawl loop runs; they
\* are assigned by the derivation after the loop, from the final theme
\* evidence.
C7_ThemesDerivedAfterLoop ==
    /\ pc # "done" => main_theme = None /\ child_theme = None
    /\ pc = "done" =>
         [main |-> main_theme, child |-> child_theme] \in Derivations(ev.themes_detected)

\* a crawl still running that already holds evidence of two themes
C7_Witness ==
    /\ pc = "running"
    /\ pages_visited >= 1
    /\ Cardinality({t.name : t \in ev.themes_detected}) >= 2
    /\ main_theme = None

\* the theme identifiers a theme path pattern matched during the crawl
MatchedThemes == {t.name : t \in {u \in ev.themes_detected : u.kind = "url"}}

\* name is X-child for an identifier X
EndsWithChild(name) == Len(name) > 0 /\ name[Len(name)] = ChildMarker

\* the X of X-child
WithoutSuffix(name) == SubSeq(name, 1, Len(name) - 1)

\* the conclusion of C8 for the child identifier name
ChildAndParentFound(name) ==
    /\ InferredParent(WithoutSuffix(name)) \in ev.themes_detected
    /\ child_theme = name
    /\ main_theme = WithoutSuffix(name)

\* C8 as claimed: when the only theme identifier matched is X-child, after
\* analyze_site the theme evidence holds X as inferred parent, child_theme is
\* X-child and main_theme is X.
C8_ChildOnlyCrawl ==
    pc = "done" =>
        \A name \in MatchedThemes :
            MatchedThemes = {name} /\ EndsWithChild(name) => ChildAndParentFound(name)

\* C8 as amended: the same, for an X that does not itself contain the marker
\* "-child".
C8_ChildOnlyCrawlPlainParent ==
    pc = "done" =>
        \A name \in MatchedThemes :
            /\ MatchedThemes = {name}
            /\ EndsWithChild(name)
            /\ ~HasTok(WithoutSuffix(name), ChildMarker)
            => ChildAndParentFound(name)

\* a finished crawl that saw astra-child on two asset URLs and no other theme
C8_Witness ==
    /\ pc = "done"
    /\ MatchedThemes = {<<"astra", "-child">>}
    /\ Cardinality({u \in ev.themes_detected : u.kind = "url"}) = 2
    /\ main_theme = <<"astra">>
    /\ child_theme = <<"astra", "-child">>

(***************************************************************************)
(* The detectors on one page, in the order of analyze_site and reordered   *)
(***************************************************************************)
\* the detectors in the other order
DetectReversed(e, soup) ==
    detect_plugins_from_html(detect_custom_functionality(e, soup), soup)

\* seq rearranged by the order of its positions
Rearranged(seq, order) == [i \in 1..Len(seq) |-> seq[order[i]]]

\* the page with its script and link tags in every order
Shuffled(soup) ==
    { [soup EXCEPT !.scripts = Rearranged(soup.scripts, os),
                   !.links = Rearranged(soup.links, ol)] :
        os \in Orders(1..Len(soup.scripts)), ol \in Orders(1..Len(soup.links)) }

\* evidence states an analyzer can be in when it is handed a page
PriorEvidence ==
    LET one_page == {Detect(EmptyEvidence, first) : first \in Bodies}
    IN {EmptyEvidence} \cup one_page
           \cup {Detect(prior, second) : prior \in one_page, second \in Bodies}

InitDetect ==
    /\ base_url = Url("https", "site", <<>>)
    /\ max_pages = 1
    /\ visited_urls = {base_url}
    /\ main_theme = None
    /\ child_theme = None
    /\ urls_to_visit = <<>>
    /\ pages_visited = 0
    /\ requests = <<Request(base_url, "ok")>>
    /\ pc = "page"
    /\ page \in Soups
    /\ ev \in PriorEvidence
    /\ ev_alt = ev
    /\ verbose = FALSE
    /\ iter_seed = 0
    /\ report = <<>>
    /\ saved = <<>>
    /\ ai = Idle
    /\ sw = Idle
    /\ org = Idle
    /\ md = Idle

\* both analyzers run the two detectors on the page, the second one in the
\* other order
DetectInOrder ==
    /\ pc = "page"
    /\ ev' = Detect(ev, page)
    /\ ev_alt' = DetectReversed(ev_alt, page)
    /\ pc' = "detected"
    /\ UNCHANGED <<base_url, max_pages, visited_urls, main_theme, child_theme,
                   urls_to_visit, pages_visited, requests, page>>
    /\ UNCHANGED <<reportVars, toolVars>>

\* both analyzers run the detectors in the same order, the second one on the
\* page with its assets in another order
DetectShuffled ==
    /\ pc = "page"
    /\ ev' = Detect(ev, page)
    /\ \E other \in Shuffled(page) : ev_alt' = Detect(ev_alt, other)
    /\ pc' = "shuffled"
    /\ UNCHANGED <<base_url, max_pages, visited_urls, main_theme, child_theme,
                   urls_to_visit, pages_visited, requests, page>>
    /\ UNCHANGED <<reportVars, toolVars>>

NextDetect ==
    \/ DetectInOrder
    \/ DetectShuffled

SpecDetect == InitDetect /\ [][NextDetect]_vars

\* the asset URLs of the page's script and link tags
PageAssets(soup) ==
    {soup.scripts[i].src : i \in 1..Len(soup.scripts)}
        \cup {soup.links[i].href : i \in 1..Len(soup.links)}

\* the catalog entries that match the asset URL
MatchingPluginPatterns(asset_url) ==
    {k \in 1..Len(plugin_path_patterns) : Matches(plugin_path_patterns[k], asset_url)}

\* the pair the first matching catalog entry gives for the asset URL
FirstPatternPair(asset_url) ==
    LET k == CHOOSE k \in MatchingPluginPatterns(asset_url) :
                 \A m \in MatchingPluginPatterns(asset_url) : k <= m
    IN Pair(Group1(plugin_path_patterns[k], asset_url), "url", asset_url)

\* C9: for every script or link asset URL of an analysed page that matches
\* an entry of the plugin path-pattern catalog, the plugin evidence holds the
\* pair (segment captured by the first matching entry, asset URL), and that
\* asset URL is the source of exactly one plugin evidence pair.
C9_FirstPatternWins ==
    pc \in {"detected", "shuffled"} =>
        \A asset_url \in PageAssets(page) :
            MatchingPluginPatterns(asset_url) # {} =>
                /\ FirstPatternPair(asset_url) \in ev.plugins_detected
                /\ Cardinality({q \in ev.plugins_detected :
                                   q.kind = "url" /\ q.val = asset_url}) = 1

\* a page was analysed whose asset matches the first and the third catalog
\* entry with different segments, and the first entry's segment was recorded
C9_Witness ==
    /\ pc = "detected"
    /\ NestedJs \in PageAssets(page)
    /\ Cardinality(MatchingPluginPatterns(NestedJs)) >= 2
    /\ Pair(<<"akismet">>, "url", NestedJs) \in ev.plugins_detected

\* the elements of seq with the number of times each occurs
BagOfSeq(seq) ==
    [x \in Range(seq) |-> Cardinality({i \in 1..Len(seq) : seq[i] = x})]

\* the theme evidence that was observed on an asset URL
ObservedThemes(e) == {t \in e.themes_detected : t.kind = "url"}

ThemeNames(e) == {t.name : t \in e.themes_detected}

\* C10 as claimed: the detectors in either order give the same final
\* evidence state, custom code indicators included, and the assets in another
\* order give the same theme and plugin evidence.
C10_OrderInsensitive ==
    /\ pc = "detected" => ev_alt = ev
    /\ pc = "shuffled" =>
         /\ ev_alt.plugins_detected = ev.plugins_detected
         /\ ev_alt.themes_detected = ev.themes_detected

\* C10 as amended: the detectors in either order give the same set-valued
\* evidence collections and the same custom code indicators up to their
\* order in the list; the assets in another order give the same plugin
\* evidence, the same theme identifiers and the same observed theme pairs
\* (the inferred-parent pair may be there or not).
C10_OrderInsensitiveUpToOrder ==
    /\ pc = "detected" =>
         /\ \A f \in SetFields : ev_alt[f] = ev[f]
         /\ BagOfSeq(ev_alt.custom_code_indicators) = BagOfSeq(ev.custom_code_indicators)
    /\ pc = "shuffled" =>
         /\ ev_alt.plugins_detected = ev.plugins_detected
         /\ ThemeNames(ev_alt) = ThemeNames(ev)
         /\ ObservedThemes(ev_alt) = ObservedThemes(ev)

\* the two orders of the detectors left the custom code indicators in
\* different orders
C10_Witness ==
    /\ pc = "detected"
    /\ ev_alt.custom_code_indicators # ev.custom_code_indicators
    /\ ev.plugins_detected # {}

(***************************************************************************)
(* generate_report                                                         *)
(*                                                                         *)
(* The report text is the sequence of its lines.  A line is the kind of    *)
(* line it is, the number it prints (0 when it prints none) and the item   *)
(* it prints (<<>> when it prints none).                                   *)
(***************************************************************************)
MaxSeed == 2        \* the iteration orders tried are 0..MaxSeed
MaxItems == 12      \* largest number of data attributes and of long inline
                    \* scripts on the generated pages (and half their classes)
PageSize == 3       \* largest number of them on one generated page
MaxSaved == 2       \* largest number of report files written

Line(tag, n, item) == <<tag, n, item>>

\* the [:3], [:10], [:5] and [:20] of generate_report
SourceLimit == 3
DataAttrLimit == 10
IndicatorLimit == 5
ClassLimit == 20

RECURSIVE ListOf(_)
\* the elements of S in one fixed order
ListOf(S) ==
    IF S = {} THEN <<>>
    ELSE LET x == CHOOSE y \in S : TRUE IN <<x>> \o ListOf(S \ {x})

\* `for x in S` and list(S) on a set: the order depends on the hashes and on
\* the insertion history, here on seed; it is the same for every iteration
\* of the set as long as the set is not changed
Iterate(S, seed) ==
    LET fixed == ListOf(S)
        n == Len(fixed)
    IN IF n = 0 THEN <<>>
       ELSE [i \in 1..n |-> fixed[((i - 1 + seed) % n) + 1]]

\* self.known_plugins[key]
Description(key) == <<"description of">> \o key

\* str.__lt__ on the identifiers the pages of the model give: upper-case
\* letters sort before lower-case ones
StrOrder ==
    << <<"Gutenberg">>, <<"Pop", "signs">>, <<"Slider", "Plugin">>,
       <<"WooCommerce">>, <<"YITH Plugin">>, <<"akismet">>, <<"elementor">>,
       <<"seo">>, <<"woocommerce">> >>

\* sorted(names)
Sorted(names) == SelectSeq(StrOrder, LAMBDA x : x \in names)

\* sorted_plugins: sorted(plugin_dict.keys()) with "woocommerce" moved to
\* the front
SortedPlugins(names) ==
    IF <<"woocommerce">> \in names
    THEN <<<<"woocommerce">>>> \o Sorted(names \ {<<"woocommerce">>})
    ELSE Sorted(names)

\* the lines of one plugin when the catalog is looked up with the
\* identifier as it is, not with plugin.lower()
PluginLines_ExactKey(plugin, sources, verb) ==
    <<IF plugin \in known_plugins
      THEN Line("plugin", 0, <<plugin, Description(plugin)>>)
      ELSE Line("plugin", 0, <<plugin>>)>>
      \o (IF verb
          THEN [i \in 1..Min(Len(sources), SourceLimit) |->
                   Line("found-in", 0, sources[i])]
          ELSE <<>>)

\* the lines of one plugin: the identifier, its description when
\* plugin.lower() is a key of the catalog, and in verbose mode sources[:3]
PluginLines(plugin, sources, verb) ==
    <<IF Lower(plugin) \in known_plugins
      THEN Line("plugin", 0, <<plugin, Description(Lower(plugin))>>)
      ELSE Line("plugin", 0, <<plugin>>)>>
      \o (IF verb
          THEN [i \in 1..Min(Len(sources), SourceLimit) |->
                   Line("found-in", 0, sources[i])]
          ELSE <<>>)

RECURSIVE Concat(_)
\* the concatenation of a sequence of sequences
Concat(seqs) == IF seqs = <<>> THEN <<>> ELSE Head(seqs) \o Concat(Tail(seqs))

\* the plugins section, which prints the header also without evidence
PluginSection_AlwaysHeader(plugins, verb) ==
    LET sources(plugin) ==
            LET of_plugin == SelectSeq(plugins, LAMBDA p : p.name = plugin)
            IN [i \in 1..Len(of_plugin) |->
                   [kind |-> of_plugin[i].kind, val |-> of_plugin[i].val]]
        sorted_plugins == SortedPlugins({plugins[i].name : i \in 1..Len(plugins)})
    IN <<Line("plugins-header", 0, <<>>)>>
         \o Concat([k \in 1..Len(sorted_plugins) |->
                      PluginLines(sorted_plugins[k], sources(sorted_plugins[k]), verb)])

\* the plugins section; plugins is self.plugins_detected as it is iterated
PluginSection(plugins, verb) ==
    LET sources(plugin) ==
            LET of_plugin == SelectSeq(plugins, LAMBDA p : p.name = plugin)
            IN [i \in 1..Len(of_plugin) |->
                   [kind |-> of_plugin[i].kind, val |-> of_plugin[i].val]]
        sorted_plugins == SortedPlugins({plugins[i].name : i \in 1..Len(plugins)})
    IN IF plugins # <<>>
       THEN <<Line("plugins-header", 0, <<>>)>>
              \o Concat([k \in 1..Len(sorted_plugins) |->
                           PluginLines(sorted_plugins[k], sources(sorted_plugins[k]), verb)])
       ELSE <<Line("no-plugins", 0, <<>>)>>

\* `if self.main_theme:`
Truthy(name) == name # None /\ name # <<>>

\* the theme section
ThemeSection(themes, main, child, verb) ==
    IF themes # <<>>
    THEN <<Line("theme-header", 0, <<>>)>>
           \o (IF Truthy(main) THEN <<Line("main-theme", 0, main)>> ELSE <<>>)
           \o (IF Truthy(child) THEN <<Line("child-theme", 0, child)>> ELSE <<>>)
           \o (IF verb
               THEN <<Line("theme-assets-header", 0, <<>>)>>
                      \o [i \in 1..Len(themes) |->
                            Line("theme-asset", 0,
                                 [kind |-> themes[i].kind, val |-> themes[i].val])]
               ELSE <<>>)
    ELSE <<Line("no-theme", 0, <<>>)>>

\* "Custom Plugin:" in item
IsCustomPlugin(item) ==
    \/ item.kind = "Custom Plugin"
    \/ \E i \in 1..Len(item.val) : HasTok(item.val[i], "Custom Plugin:")

\* a section that lists every item under a header, and is left out when
\* there is none
ListSection(header, tag, items) ==
    IF items # <<>>
    THEN <<Line(header, 0, <<>>)>>
           \o [i \in 1..Len(items) |-> Line(tag, 0, items[i])]
    ELSE <<>>

\* a capped section with `>=` for `>` in the test for the overflow line
CappedLines_OffByOne(tag, more, items, limit) ==
    [i \in 1..Min(Len(items), limit) |-> Line(tag, 0, items[i])]
      \o (IF Len(items) >= limit
          THEN <<Line(more, Len(items) - limit, <<>>)>>
          ELSE <<>>)

\* items[:limit] and, when there are more, the line "... and N more"
CappedLines(tag, more, items, limit) ==
    [i \in 1..Min(Len(items), limit) |-> Line(tag, 0, items[i])]
      \o (IF Len(items) > limit
          THEN <<Line(more, Len(items) - limit, <<>>)>>
          ELSE <<>>)

\* the prefixes of the classes the verbose report lists
InterestingPrefixes == {"wc-", "yith-", "elementor-", "wp-block-"}

\* the text generate_report returns for the evidence e when the sets are
\* iterated in the order seed gives
generate_report(e, seed) ==
    LET custom_plugins ==
            SelectSeq(e.custom_code_indicators, IsCustomPlugin)
        custom_code_without_plugins ==
            SelectSeq(e.custom_code_indicators, LAMBDA item : ~IsCustomPlugin(item))
        plugin_specific_classes ==
            SelectSeq(Iterate(e.css_classes, seed),
                      LAMBDA cls : \E prefix \in InterestingPrefixes :
                                      StartsWith(cls, prefix))
    IN <<Line("title", 0, <<>>),
         Line("target", 0, base_url),
         Line("pages", Cardinality(visited_urls), <<>>)>>
       \o PluginSection(Iterate(e.plugins_detected, seed), verbose)
       \o ThemeSection(Iterate(e.themes_detected, seed), main_theme, child_theme, verbose)
       \o ListSection("custom-plugins-header", "custom-plugin",
                      [i \in 1..Len(custom_plugins) |-> custom_plugins[i].val])
       \o ListSection("blocks-header", "block", Iterate(e.gutenberg_blocks, seed))
       \o ListSection("post-types-header", "post-type", Iterate(e.custom_post_types, seed))
       \o ListSection("rest-header", "rest-endpoint", Iterate(e.rest_endpoints, seed))
       \o ListSection("shortcodes-header", "shortcode", Iterate(e.shortcodes, seed))
       \o <<Line("custom-header", 0, <<>>)>>
       \o (IF e.custom_data_attributes # {}
           THEN <<Line("attrs-header", 0, <<>>)>>
                  \o CappedLines("attr", "attr-more",
                                 Iterate(e.custom_data_attributes, seed), DataAttrLimit)
           ELSE <<>>)
       \o ListSection("ajax-header", "ajax", Iterate(e.ajax_calls, seed))
       \o (IF custom_code_without_plugins # <<>>
           THEN <<Line("indicators-header", 0, <<>>)>>
                  \o CappedLines("indicator", "indicator-more",
                                 custom_code_without_plugins, IndicatorLimit)
           ELSE <<>>)
       \o (IF verbose /\ e.css_classes # {}
           THEN <<Line("classes-header", 0, <<>>)>>
                  \o CappedLines("class", "class-more",
                                 plugin_specific_classes, ClassLimit)
           ELSE <<>>)
       \o <<Line("complete", 0, <<>>)>>

(***************************************************************************)
(* The report of a finished analyzer                                       *)
(***************************************************************************)
\* the k-th generated page of the site: n data attributes, n long inline
\* scripts and 2n classes of two plugins, none of them on another page
GenPage(k, n) ==
    Soup(<<>>, <<>>,
         << Tag("section",
                [i \in 1..(2 * n) |->
                    <<IF i % 2 = 1 THEN "wc-" ELSE "yith-", ToString(k), ToString(i)>>],
                [i \in 1..n |->
                    Attr(<<"data-", ToString(k), ToString(i)>>, <<"v">>)]) >>,
         <<>>, <<>>,
         [i \in 1..n |->
             Script(FALSE, "text/javascript", <<"let", ToString(k), ToString(i)>>,
                    150, <<>>, <<>>, <<>>, FALSE)])

\* the URL of the k-th generated page when it has n items
GenUrl(k, n) == Url("https", "site", <<"gen", ToString(k), ToString(n)>>)

\* the page the site serves at a generated URL
PageAt(url) ==
    LET kn == CHOOSE kn \in (1..(MaxItems + 1)) \X (0..PageSize) :
                  GenUrl(kn[1], kn[2]) = url
    IN GenPage(kn[1], kn[2])

\* the URLs of the generated pages that hold total items together, every
\* page but the last one with PageSize of them
Frontier(total) ==
    [k \in 1..((total + PageSize - 1) \div PageSize) |->
        GenUrl(k, Min(PageSize, total - (k - 1) * PageSize))]

\* the evidence after the crawl of one of the pages
FirstPageEvidence == {Detect(EmptyEvidence, first) : first \in Bodies}

\* an analyzer in its crawl loop: the homepage has been analysed and the
\* generated pages are in the frontier
InitReport ==
    /\ base_url = Url("https", "site", <<>>)
    /\ max_pages = MaxItems + 2
    /\ visited_urls = {base_url}
    /\ urls_to_visit \in {Frontier(total) : total \in 0..MaxItems}
    /\ pages_visited = 1
    /\ requests = <<Request(base_url, "ok")>>
    /\ page = EmptyPage
    /\ ev \in FirstPageEvidence
    /\ ev_alt = ev
    /\ main_theme = None
    /\ child_theme = None
    /\ verbose \in BOOLEAN
    /\ iter_seed \in 0..MaxSeed
    /\ report = <<>>
    /\ saved = <<>>
    /\ pc = "running"
    /\ ai = Idle
    /\ sw = Idle
    /\ org = Idle
    /\ md = Idle

\* one pass of the crawl loop on a generated page, which links to no page
AnalyseGenerated ==
    /\ pc = "running"
    /\ urls_to_visit # <<>>
    /\ pages_visited < max_pages
    /\ LET url == Head(urls_to_visit)
       IN /\ url \notin visited_urls
          /\ visited_urls' = visited_urls \cup {url}
          /\ requests' = Append(requests, Request(url, "ok"))
          /\ page' = PageAt(url)
          /\ ev' = Detect(ev, page')
    /\ urls_to_visit' = Tail(urls_to_visit)
    /\ pages_visited' = pages_visited + 1
    /\ UNCHANGED <<base_url, max_pages, main_theme, child_theme, pc, ev_alt,
                   reportVars, toolVars>>

\* the end of analyze_site: the themes are derived from the theme evidence
\* as it is iterated
FinishCrawl ==
    /\ pc = "running"
    /\ urls_to_visit = <<>>
    /\ LET order == Iterate(ev.themes_detected, iter_seed)
           themes == DeriveThemes([i \in 1..Len(order) |-> order[i].name])
       IN /\ main_theme' = themes.main
          /\ child_theme' = themes.child
    /\ pc' = "done"
    /\ UNCHANGED <<base_url, max_pages, visited_urls, ev, urls_to_visit,
                   pages_visited, requests, page, ev_alt, reportVars, toolVars>>

\* the variables generate_report has no business with
reportFrame ==
    <<base_url, max_pages, visited_urls, ev, main_theme, child_theme,
      urls_to_visit, pages_visited, requests, page, ev_alt, verbose, iter_seed>>

\* a generate_report that caps the indicator list in place
GenerateReport_TruncatesInPlace(save_to_file) ==
    /\ pc \in {"done", "reported"}
    /\ save_to_file => Len(saved) < MaxSaved
    /\ report' = generate_report(ev, iter_seed)
    /\ saved' = IF save_to_file THEN Append(saved, report') ELSE saved
    /\ pc' = "reported"
    /\ ev' = [ev EXCEPT !.custom_code_indicators = Take(@, IndicatorLimit)]
    /\ UNCHANGED <<base_url, max_pages, visited_urls, main_theme, child_theme,
                   urls_to_visit, pages_visited, requests, page, ev_alt,
                   verbose, iter_seed>>
    /\ UNCHANGED toolVars

\* a generate_report that adds the "Report saved to" line to the text
GenerateReport_ReportsSave(save_to_file) ==
    /\ pc \in {"done", "reported"}
    /\ save_to_file => Len(saved) < MaxSaved
    /\ report' = generate_report(ev, iter_seed)
                   \o (IF save_to_file THEN <<Line("saved", 0, <<>>)>> ELSE <<>>)
    /\ saved' = IF save_to_file THEN Append(saved, report') ELSE saved
    /\ pc' = "reported"
    /\ UNCHANGED reportFrame
    /\ UNCHANGED toolVars

\* a call of generate_report on the finished analyzer: the text is built
\* from the collections, written to a file when asked to, and returned
GenerateReport(save_to_file) ==
    /\ pc \in {"done", "reported"}
    /\ save_to_file => Len(saved) < MaxSaved
    /\ report' = generate_report(ev, iter_seed)
    /\ saved' = IF save_to_file THEN Append(saved, report') ELSE saved
    /\ pc' = "reported"
    /\ UNCHANGED reportFrame
    /\ UNCHANGED toolVars

NextReport ==
    \/ AnalyseGenerated
    \/ FinishCrawl
    \/ \E save_to_file \in BOOLEAN : GenerateReport(save_to_file)

SpecReport == InitReport /\ [][NextReport]_vars

(***************************************************************************)
(* Claims about the report                                                 *)
(***************************************************************************)
\* the positions of the lines of one kind in the report
LinesTagged(tag) == {i \in 1..Len(report) : report[i][1] = tag}

\* the lines of one kind, in the order of the report
Tagged(tag) == SelectSeq(report, LAMBDA line : line[1] = tag)

RECURSIVE SumOfNumbers(_)
\* the sum of the numbers the lines print
SumOfNumbers(lines) ==
    IF lines = <<>> THEN 0 ELSE Head(lines)[2] + SumOfNumbers(Tail(lines))

\* C11: generate_report does not mutate the analyzer: across every call,
\* verbose or not, the visited set, every evidence collection, main_theme,
\* child_theme, base_url and max_pages are unchanged.
C11_ReportLeavesAnalyzerUnchanged ==
    [][pc' = "reported" =>
          UNCHANGED <<visited_urls, ev, main_theme, child_theme, base_url,
                      max_pages>>]_vars

\* a verbose report was returned and saved for an analyzer whose capped
\* collections are longer than their caps
C11_Witness ==
    /\ pc = "reported"
    /\ verbose
    /\ Len(saved) > 0
    /\ Len(report) > 0
    /\ Len(ev.custom_code_indicators) > IndicatorLimit
    /\ Cardinality(ev.custom_data_attributes) > DataAttrLimit

OtherIndicators ==
    SelectSeq(ev.custom_code_indicators, LAMBDA item : ~IsCustomPlugin(item))

\* the classes the verbose report is to list
InterestingClasses ==
    {cls \in ev.css_classes :
        \E prefix \in InterestingPrefixes : StartsWith(cls, prefix)}

\* C13: every section that truncates its list states the number of omitted
\* items: for the custom data attributes, the other custom code indicators,
\* the verbose CSS classes and the verbose per-plugin evidence sources, the
\* number of items shown plus the number the overflow lines state is the
\* number of items collected.
C13_TruncationStatesOverflow ==
    pc = "reported" =>
        /\ Cardinality(LinesTagged("attr")) + SumOfNumbers(Tagged("attr-more"))
             = Cardinality(ev.custom_data_attributes)
        /\ Cardinality(LinesTagged("indicator"))
             + SumOfNumbers(Tagged("indicator-more"))
             = Len(OtherIndicators)
        /\ verbose =>
             /\ Cardinality(LinesTagged("class")) + SumOfNumbers(Tagged("class-more"))
                  = Cardinality(InterestingClasses)
             /\ Cardinality(LinesTagged("found-in"))
                  + SumOfNumbers(Tagged("source-more"))
                  = Cardinality(ev.plugins_detected)

\* C14: with n custom data attributes collected, the section lists
\* min(n, 10) attributes, all of them collected and no two the same; when
\* n > 10 there is one overflow line, which states n - 10, and when n <= 10
\* there is none.
C14_DataAttributeSection ==
    pc = "reported" =>
        LET n == Cardinality(ev.custom_data_attributes)
            shown == LinesTagged("attr")
            more == LinesTagged("attr-more")
        IN /\ Cardinality(shown) = Min(n, DataAttrLimit)
           /\ \A i \in shown : report[i][3] \in ev.custom_data_attributes
           /\ \A i, j \in shown : report[i][3] = report[j][3] => i = j
           /\ n > DataAttrLimit =>
                /\ Cardinality(more) = 1
                /\ \A i \in more : report[i][2] = n - DataAttrLimit
           /\ n <= DataAttrLimit => more = {}

\* a report with the overflow line of the data attributes
C14_Witness ==
    /\ pc = "reported"
    /\ Cardinality(ev.custom_data_attributes) = DataAttrLimit + 2
    /\ Cardinality(LinesTagged("attr")) = DataAttrLimit
    /\ \E i \in LinesTagged("attr-more") : report[i][2] = 2

\* the identifiers of the plugin evidence
PluginNames == {p.name : p \in ev.plugins_detected}

\* a comes before b in Python's order of strings
StrLess(a, b) ==
    \E i, j \in 1..Len(StrOrder) : i < j /\ StrOrder[i] = a /\ StrOrder[j] = b

\* each identifier is listed once, "woocommerce" first and the others in
\* ascending order
ListedOnceInOrder(listed) ==
    /\ Len(listed) = Cardinality(PluginNames)
    /\ {listed[k][3][1] : k \in 1..Len(listed)} = PluginNames
    /\ <<"woocommerce">> \in PluginNames => listed[1][3][1] = <<"woocommerce">>
    /\ \A k, m \in 1..Len(listed) :
          k < m /\ listed[k][3][1] # <<"woocommerce">> =>
              StrLess(listed[k][3][1], listed[m][3][1])

C16_NoPluginsLine ==
    pc = "reported" =>
        IF ev.plugins_detected = {}
        THEN LinesTagged("no-plugins") # {} /\ LinesTagged("plugins-header") = {}
        ELSE LinesTagged("plugins-header") # {} /\ LinesTagged("no-plugins") = {}

\* a report of a crawl that found themes and no plugin
C16_Witness ==
    /\ pc = "reported"
    /\ ev.plugins_detected = {}
    /\ ev.themes_detected # {}
    /\ Cardinality(LinesTagged("no-plugins")) = 1
    /\ LinesTagged("plugin") = {}

(***************************************************************************)
(* The AI adapter (Scripts/woo_analysis_with_ai.py)                        *)
(*                                                                         *)
(* ai is the AIWooCommerceAnalyzer object and what surrounds it:           *)
(*   url       self.url                                                    *)
(*   crawl     how analyze_site ends on the site: "done", or "raised" by   *)
(*             the uncaught exception of extract_links                     *)
(*   api_key   self.api_key, os.getenv("OPENAI_API_KEY")                   *)
(*   endpoint  what the completion endpoint does with a request            *)
(*   report    self.report, "unset" while the attribute does not exist     *)
(*   result    what the last method call returned                          *)
(*   posts     the number of requests sent to the completion endpoint      *)
(*   call      the last method called                                      *)
(*   pc        "raised" when the last call ended with an exception         *)
(***************************************************************************)
MaxPosts == 2       \* largest number of requests to the endpoint

\* the analyzer and its report generator while another script runs
AnalyzerIdle ==
    /\ base_url = Url("https", "site", <<>>)
    /\ max_pages = 1
    /\ visited_urls = {}
    /\ ev = EmptyEvidence
    /\ main_theme = None
    /\ child_theme = None
    /\ urls_to_visit = <<>>
    /\ pages_visited = 0
    /\ pc = "idle"
    /\ requests = <<>>
    /\ page = EmptyPage
    /\ ev_alt = EmptyEvidence
    /\ verbose = FALSE
    /\ iter_seed = 0
    /\ report = <<>>
    /\ saved = <<>>

\* the variables of the analyzer and its report generator
analyzerVars ==
    <<base_url, max_pages, visited_urls, ev, main_theme, child_theme,
      urls_to_visit, pages_visited, pc, requests, page, ev_alt, reportVars>>

\* the sites: a site whose crawl ends, a site with a page whose href makes
\* urljoin raise, and a URL that urlparse rejects (it is never fetched)
AiSites ==
    { [url |-> "https://site", crawl |-> "done"],
      [url |-> "https://site", crawl |-> "raised"],
      [url |-> "http://[", crawl |-> "done"] }

\* the values of the environment variable: not set, empty, set
ApiKeys == {"None", "", "sk-key"}

\* the completion endpoint: a 200 answer with choices, a 200 answer without,
\* another status with a JSON body, another status with another body, and
\* requests.post raising
Endpoints == {"200", "200-no-choices", "status", "status-no-json", "network"}

\* `if not self.api_key`
NoKey(key) == key = "None" \/ key = ""

\* the error strings get_ai_interpretation returns
KeyError == "Error: OpenAI API key not configured. Cannot get AI interpretation."
ApiError == "Error getting AI interpretation"

InitAI ==
    /\ AnalyzerIdle
    /\ \E site \in AiSites, key \in ApiKeys, endpoint \in Endpoints :
          ai = [pc |-> "constructed", url |-> site.url, crawl |-> site.crawl,
                api_key |-> key, endpoint |-> endpoint, report |-> "unset",
                result |-> "None", posts |-> 0, call |-> "__init__"]
    /\ sw = Idle
    /\ org = Idle
    /\ md = Idle

\* analyze(): the crawl and then the report; an exception of the crawl
\* leaves the method before self.report is assigned
Analyze ==
    /\ ai.pc \in {"constructed", "returned"}
    /\ ai.report = "unset"
    /\ ai' = IF ai.crawl = "raised"
             THEN [ai EXCEPT !.pc = "raised", !.call = "analyze"]
             ELSE [ai EXCEPT !.pc = "returned", !.call = "analyze",
                             !.report = "report", !.result = "report"]
    /\ UNCHANGED <<analyzerVars, sw, org, md>>

\* _call_openai_api inside the try of get_ai_interpretation: the content of
\* the answer, or the error string made from the exception
CallResult(endpoint) == IF endpoint = "200" THEN "interpretation" ELSE ApiError

\* get_ai_interpretation(): analyze() when there is no report yet, the
\* error string when there is no key, then the prompt, whose urlparse may
\* raise, and the request in a try that turns every exception into an
\* error string
GetAiInterpretation ==
    /\ ai.pc \in {"constructed", "returned"}
    /\ ai.posts < MaxPosts
    /\ ai' =
         IF ai.report = "unset" /\ ai.crawl = "raised"
         THEN [ai EXCEPT !.pc = "raised", !.call = "get_ai_interpretation"]
         ELSE IF NoKey(ai.api_key)
         THEN [ai EXCEPT !.pc = "returned", !.call = "get_ai_interpretation",
                         !.report = "report", !.result = KeyError]
         ELSE IF ai.url = "http://["
         THEN [ai EXCEPT !.pc = "raised", !.call = "get_ai_interpretation",
                         !.report = "report"]
         ELSE [ai EXCEPT !.pc = "returned", !.call = "get_ai_interpretation",
                         !.report = "report",
                         !.posts = @ + 1,
                         !.result = CallResult(ai.endpoint)]
    /\ UNCHANGED <<analyzerVars, sw, org, md>>

NextAI ==
    \/ Analyze
    \/ GetAiInterpretation

SpecAI == InitAI /\ [][NextAI]_vars

\* C17: when the API key is missing, get_ai_interpretation returns an error
\* string instead of raising, sends no request to the completion endpoint,
\* and the crawl and the technical report are produced; when the key is
\* there and the endpoint call fails, the error is returned as an error
\* string.
C17_AiFailuresReturned ==
    ai.call = "get_ai_interpretation" =>
        /\ NoKey(ai.api_key) =>
             /\ ai.pc = "returned"
             /\ ai.result = KeyError
             /\ ai.posts = 0
             /\ ai.report = "report"
        /\ ~NoKey(ai.api_key) /\ ai.posts > 0 /\ ai.endpoint # "200" =>
             /\ ai.pc = "returned"
             /\ ai.result = ApiError

(***************************************************************************)
(* split_markdown_by_word_count (Scripts/split_by_word_count.py)           *)
(*                                                                         *)
(* The input file is the number of words before its first frontmatter      *)
(* block and the numbers of words of its sections (a frontmatter block     *)
(* with the text after it, as yaml_pattern.findall gives them; the two     *)
(* "---" of the block are words of the section).  An output file is the    *)
(* sections written to it and the number of its words.                     *)
(***************************************************************************)
MaxSections == 3        \* largest number of sections of the input file
MaxSectionWords == 4    \* largest number of words of a section
MaxWords == 6           \* largest max_words

RECURSIVE SumSeq(_)
\* count_words of the concatenation of texts that have these word counts
SumSeq(counts) == IF counts = <<>> THEN 0 ELSE Head(counts) + SumSeq(Tail(counts))

\* an output file that holds these sections of the input
OutFile(sections, words) == [sections |-> sections, words |-> words]

RECURSIVE SplitLoop(_, _, _, _, _)
\* the loop over the sections from the i-th one on, and the write of the
\* last file after it; current is current_file_content and count is
\* current_word_count
SplitLoop(sections, i, current, count, max_words) ==
    IF i > Len(sections)
    THEN IF current # <<>> THEN <<OutFile(current, count)>> ELSE <<>>
    ELSE IF count + sections[i] > max_words /\ count > 0
         THEN <<OutFile(current, count)>>
                \o SplitLoop(sections, i + 1, <<i>>, sections[i], max_words)
         ELSE SplitLoop(sections, i + 1, Append(current, i), count + sections[i],
                        max_words)

\* the files split_markdown_by_word_count writes: a copy of the input when
\* it has at most max_words words, the files of the loop otherwise
split_markdown_by_word_count(preamble, sections, max_words) ==
    LET total_word_count == preamble + SumSeq(sections)
    IN IF total_word_count <= max_words
       THEN <<[sections |-> [i \in 1..Len(sections) |-> i],
               words |-> total_word_count]>>
       ELSE SplitLoop(sections, 1, <<>>, 0, max_words)

InitWords ==
    /\ AnalyzerIdle
    /\ ai = Idle
    /\ org = Idle
    /\ md = Idle
    /\ \E preamble \in 0..1, max_words \in 1..MaxWords,
          sections \in SeqsUpTo(2..MaxSectionWords, MaxSections) :
          sw = [pc |-> "start", preamble |-> preamble, sections |-> sections,
                max_words |-> max_words, output_files |-> <<>>]

\* one call of split_markdown_by_word_count
SplitMarkdownByWordCount ==
    /\ sw.pc = "start"
    /\ sw' = [sw EXCEPT !.pc = "returned",
                        !.output_files =
                            split_markdown_by_word_count(sw.preamble, sw.sections,
                                                         sw.max_words)]
    /\ UNCHANGED <<analyzerVars, ai, org, md>>

NextWords == SplitMarkdownByWordCount

SpecWords == InitWords /\ [][NextWords]_vars

\* C18: for every input file and every max_words > 0, each file that
\* split_markdown_by_word_count writes or copies has at most max_words
\* words.
C18_NoFileOverLimit ==
    sw.pc = "returned" =>
        \A k \in 1..Len(sw.output_files) :
            sw.output_files[k].words <= sw.max_words

(***************************************************************************)
(* The attachment organizer (Scripts/organize_obsidian_attachments.py)     *)
(*                                                                         *)
(* A path is <<directory, name, extension>>; a directory is a sequence of  *)
(* tokens, so that str.startswith is the prefix test; a name is a stem     *)
(* followed by the numbers of its "_1", "_2" suffixes, so that "a_1" is    *)
(* <<"a", 1>> whether it was on the disk or made by the conflict loop.     *)
(* org is the run:                                                         *)
(*   dry_run    the --dry-run flag                                         *)
(*   fs         the files on the disk, each a path and a content           *)
(*   dirs       the directories that exist                                 *)
(*   todo       the files os.walk has still to hand over                   *)
(*   moved, failed, skipped       the lists of PROCESSED_FILES             *)
(*   n_processed, n_errors, n_skipped   the counters of the summary        *)
(*   report_written   TRUE when the JSON report has been written           *)
(***************************************************************************)
MaxFiles == 3       \* largest number of files in the walked directories

Path(dir, name, ext) == <<dir, name, ext>>

File(path, content) == [path |-> path, content |-> content]

\* ATTACHMENT_PATHS
ATTACHMENT_PATHS ==
    [audio |-> <<"Files", "/Audio">>, image |-> <<"Files", "/Images">>,
     document |-> <<"Files", "/PDFs">>, video |-> <<"Files", "/Videos">>]

\* FILE_TYPES on the extensions of the model, and the default
get_attachment_type(path) ==
    CASE path[3] \in {".mp3", ".wav"} -> "audio"
      [] path[3] \in {".png", ".jpg"} -> "image"
      [] path[3] \in {".mp4", ".mov"} -> "video"
      [] OTHER -> "document"

\* file_path.endswith((".md", ".txt", ".json", ".DS_Store"))
NotAttachment(path) == path[3] \in {".md", ".txt", ".json", ".DS_Store"}

\* os.path.exists(path) for the path of a file
Exists(fs, path) == \E f \in fs : f.path = path

\* the conflict loop with `if` for `while`: the first suffixed name is
\* taken without looking whether it exists
FreePath_If(fs, dest_dir, name, ext, counter) ==
    IF Exists(fs, Path(dest_dir, name, ext))
    THEN Path(dest_dir, Append(name, counter), ext)
    ELSE Path(dest_dir, name, ext)

RECURSIVE FreeSuffix(_, _, _, _, _)
\* the body of the conflict loop from counter on: the first of name_counter,
\* name_(counter+1), ... that does not exist
FreeSuffix(fs, dest_dir, original, ext, counter) ==
    IF Exists(fs, Path(dest_dir, Append(original, counter), ext))
    THEN FreeSuffix(fs, dest_dir, original, ext, counter + 1)
    ELSE Path(dest_dir, Append(original, counter), ext)

\* the conflict loop: dest_path when it does not exist, the first free
\* suffixed name otherwise
FreePath(fs, dest_dir, name, ext, counter) ==
    IF Exists(fs, Path(dest_dir, name, ext))
    THEN FreeSuffix(fs, dest_dir, name, ext, counter)
    ELSE Path(dest_dir, name, ext)

\* an ensure_directory_exists that creates the directory in a dry run too
EnsureDirectory_IgnoresDryRun(dirs, directory_path, dry_run, makedirs_ok) ==
    IF directory_path \in dirs THEN [ok |-> TRUE, dirs |-> dirs]
    ELSE IF makedirs_ok THEN [ok |-> TRUE, dirs |-> dirs \cup {directory_path}]
    ELSE [ok |-> FALSE, dirs |-> dirs]

\* ensure_directory_exists: what it returns and the directories after it
EnsureDirectory(dirs, directory_path, dry_run, makedirs_ok) ==
    IF directory_path \in dirs THEN [ok |-> TRUE, dirs |-> dirs]
    ELSE IF dry_run THEN [ok |-> TRUE, dirs |-> dirs]
    ELSE IF makedirs_ok THEN [ok |-> TRUE, dirs |-> dirs \cup {directory_path}]
    ELSE [ok |-> FALSE, dirs |-> dirs]

\* process_attachment_file on file_path when the run is in state o: the
\* state after it and `returned`, the value it returns
process_attachment_file(o, file_path, makedirs_ok, move_ok) ==
    LET dest_dir == ATTACHMENT_PATHS[get_attachment_type(file_path)]
        ensured == EnsureDirectory(o.dirs, dest_dir, o.dry_run, makedirs_ok)
        dest_path == IF o.dry_run THEN Path(dest_dir, file_path[2], file_path[3])
                     ELSE FreePath(o.fs, dest_dir, file_path[2], file_path[3], 1)
        content == (CHOOSE f \in o.fs : f.path = file_path).content
    IN IF NotAttachment(file_path)
       THEN [returned |-> FALSE,
             org |-> [o EXCEPT !.skipped =
                          Append(@, <<file_path, "not an attachment file">>)]]
       ELSE IF IsPrefix(dest_dir, file_path[1])
       THEN [returned |-> FALSE,
             org |-> [o EXCEPT !.skipped =
                          Append(@, <<file_path, "already in correct location">>)]]
       ELSE IF ~ensured.ok
       THEN [returned |-> FALSE,
             org |-> [o EXCEPT !.failed =
                          Append(@, <<file_path, "destination directory creation failed">>)]]
       ELSE IF o.dry_run
       THEN [returned |-> TRUE, org |-> [o EXCEPT !.dirs = ensured.dirs]]
       ELSE IF move_ok
       THEN [returned |-> TRUE,
             org |-> [o EXCEPT
                        !.dirs = ensured.dirs,
                        !.fs = {f \in @ : f.path # file_path /\ f.path # dest_path}
                                 \cup {File(dest_path, content)},
                        !.moved = Append(@, <<file_path, dest_path>>)]]
       ELSE [returned |-> FALSE,
             org |-> [o EXCEPT !.dirs = ensured.dirs,
                               !.failed = Append(@, <<file_path, "error_msg">>)]]

\* the directories the walk hands files of
WalkedDirs == {<<"notes">>, <<"inbox">>, <<"Files", "/Images", "-old">>}

\* the files that may be in the walked directories
WalkedPaths ==
    { Path(<<"notes">>, <<"a">>, ".png"), Path(<<"inbox">>, <<"a">>, ".png"),
      Path(<<"notes">>, <<"a", 1>>, ".png"), Path(<<"inbox">>, <<"b">>, ".xyz"),
      Path(<<"notes">>, <<"n">>, ".md"),
      Path(<<"Files", "/Images", "-old">>, <<"a">>, ".png") }

\* the files that may be in the image folder before the run
PresentPaths ==
    { Path(ATTACHMENT_PATHS.image, <<"a">>, ".png"),
      Path(ATTACHMENT_PATHS.image, <<"a", 1>>, ".png") }

\* the disk that holds these files, each with a content of its own
Disk(paths) == {File(path, <<"content of", path>>) : path \in paths}

InitOrg ==
    /\ AnalyzerIdle
    /\ ai = Idle
    /\ sw = Idle
    /\ md = Idle
    /\ \E walked \in {w \in SUBSET WalkedPaths : Cardinality(w) <= MaxFiles},
          present \in SUBSET PresentPaths,
          documents \in BOOLEAN, dry_run \in BOOLEAN :
          org = [pc |-> "walking",
                 dry_run |-> dry_run,
                 fs |-> Disk(walked \cup present),
                 dirs |-> WalkedDirs
                            \cup (IF present # {} THEN {ATTACHMENT_PATHS.image} ELSE {})
                            \cup (IF documents THEN {ATTACHMENT_PATHS.document} ELSE {}),
                 todo |-> walked,
                 moved |-> <<>>, failed |-> <<>>, skipped |-> <<>>,
                 n_processed |-> 0, n_errors |-> 0, n_skipped |-> 0,
                 report_written |-> FALSE]

\* `file_path in PROCESSED_FILES["failed"]`
InFailed(file_path, failed) == \E i \in 1..Len(failed) : failed[i] = file_path

\* one pass of the loop of organize_attachments over the files of the walk
ProcessFile ==
    /\ org.pc = "walking"
    /\ \E file_path \in org.todo, makedirs_ok \in BOOLEAN, move_ok \in BOOLEAN :
          LET done == process_attachment_file(org, file_path, makedirs_ok, move_ok)
              after == [done.org EXCEPT !.todo = @ \ {file_path}]
          IN org' = IF done.returned
                    THEN [after EXCEPT !.n_processed = @ + 1]
                    ELSE IF InFailed(file_path, after.failed)
                    THEN [after EXCEPT !.n_errors = @ + 1]
                    ELSE [after EXCEPT !.n_skipped = @ + 1]
    /\ UNCHANGED <<analyzerVars, ai, sw, md>>

\* the end of organize_attachments: save_processed_files_report, which
\* returns at once in a dry run, and the summary
FinishWalk ==
    /\ org.pc = "walking"
    /\ org.todo = {}
    /\ \E written \in BOOLEAN :
          org' = [org EXCEPT !.pc = "done",
                             !.report_written = ~org.dry_run /\ written]
    /\ UNCHANGED <<analyzerVars, ai, sw, md>>

NextOrg ==
    \/ ProcessFile
    \/ FinishWalk

SpecOrg == InitOrg /\ [][NextOrg]_vars

\* C19: in dry-run mode the organizer changes nothing: no file is moved, no
\* destination directory is created, no JSON report is written and the
\* 'moved' list stays empty.
C19_DryRunChangesNothing ==
    [][org.dry_run =>
          /\ org'.fs = org.fs
          /\ org'.dirs = org.dirs
          /\ ~org'.report_written
          /\ org'.moved = <<>>]_vars

\* a dry run ended after it went over a file whose destination folder does
\* not exist and a file whose name is taken in its destination folder
C19_Witness ==
    /\ org.pc = "done"
    /\ org.dry_run
    /\ org.n_processed >= 2
    /\ ATTACHMENT_PATHS.document \notin org.dirs
    /\ Exists(org.fs, Path(<<"inbox">>, <<"b">>, ".xyz"))
    /\ Exists(org.fs, Path(<<"notes">>, <<"a">>, ".png"))
    /\ Exists(org.fs, Path(ATTACHMENT_PATHS.image, <<"a">>, ".png"))

\* the paths the files were moved to
MovedTo(o) == [i \in 1..Len(o.moved) |-> o.moved[i][2]]

\* C20: a move of a run that is not a dry run never overwrites a file: the
\* file goes to its name in the folder or, when that is taken, to the first
\* of name_1, name_2, ... that is not; every file that was on the disk is
\* still there with its content, the moved one under its new path, and no
\* two files were moved to the same path.
C20_MoveNeverOverwrites ==
    [][~org.dry_run =>
          /\ \A f \in org.fs :
                \/ f \in org'.fs
                \/ \E g \in org'.fs :
                      /\ g.content = f.content
                      /\ ~Exists(org.fs, g.path)
                      /\ g.path[2] # f.path[2] =>
                           \E k \in 1..(Cardinality(org.fs) + 1) :
                              /\ g.path[2] = Append(f.path[2], k)
                              /\ Exists(org.fs, Path(g.path[1], f.path[2], f.path[3]))
                              /\ \A j \in 1..(k - 1) :
                                    Exists(org.fs, Path(g.path[1], Append(f.path[2], j),
                                                        f.path[3]))
          /\ Cardinality(org'.fs) = Cardinality(org.fs)
          /\ \A i, j \in 1..Len(org'.moved) :
                MovedTo(org')[i] = MovedTo(org')[j] => i = j]_vars

\* a run moved three files named a.png to a folder that held a.png and
\* a_1.png, which are still there
C20_Witness ==
    /\ org.pc = "done"
    /\ ~org.dry_run
    /\ Len(org.moved) = 3
    /\ File(Path(ATTACHMENT_PATHS.image, <<"a">>, ".png"),
            <<"content of", Path(ATTACHMENT_PATHS.image, <<"a">>, ".png")>>) \in org.fs
    /\ File(Path(ATTACHMENT_PATHS.image, <<"a", 1>>, ".png"),
            <<"content of", Path(ATTACHMENT_PATHS.image, <<"a", 1>>, ".png")>>) \in org.fs
    /\ \E i \in 1..Len(org.moved) :
          org.moved[i][2] = Path(ATTACHMENT_PATHS.image, <<"a", 2>>, ".png")
    /\ \E i \in 1..Len(org.moved) :
          org.moved[i][2] = Path(ATTACHMENT_PATHS.image, <<"a", 1, 1>>, ".png")

(***************************************************************************)
(* The crawl loop, step by step                                            *)
(***************************************************************************)
\* this step made a request
Fetched == Len(requests') = Len(requests) + 1

\* the request this step made
LastRequest == requests'[Len(requests')]

\* C21: an iteration whose fetch fails (another status than 200, a timeout,
\* a connection error) runs no detector: every evidence collection and the
\* count of analysed pages stay as they were, no link is enqueued, and the
\* crawl goes on with the next URL of the frontier
C21_FailedFetchChangesNothing ==
    [][(Fetched /\ LastRequest.outcome # "ok")
          => /\ LastRequest.url = Head(urls_to_visit)
             /\ ev' = ev
             /\ pages_visited' = pages_visited
             /\ main_theme' = main_theme /\ child_theme' = child_theme
             /\ urls_to_visit' = Tail(urls_to_visit)
             /\ pc' = "running"]_vars

\* a fetch failed after a page was analysed, and a later URL was fetched
C21_Witness ==
    \E i, j \in 1..Len(requests) :
        /\ i < j /\ j < Len(requests)
        /\ requests[i].outcome = "ok"
        /\ requests[j].outcome # "ok"
        /\ ev # EmptyEvidence

\* this step is one iteration of the loop that leaves the loop running
Iteration == pc = "running" /\ pc' = "running"

Appended == Drop(urls_to_visit', Len(urls_to_visit) - 1)

\* the <a href> tags of a page resolved against its URL, in document order
DocumentOrder(anchors, current_url) ==
    [i \in 1..Len(anchors) |-> urljoin(current_url, anchors[i])]

\* links are the kept URLs of the document, in the document's order and as
\* often as the document has them
InDocumentOrder(links, anchors, current_url) ==
    LET kept == {i \in 1..Len(anchors) : ~anchors[i].hash}
        document == DocumentOrder(anchors, current_url)
    IN \E take \in SUBSET kept :
          /\ Len(links) = Cardinality(take)
          /\ \A i \in 1..Len(links) :
                \E k \in take : /\ links[i] = document[k]
                                /\ Cardinality({m \in take : m < k}) = i - 1

\* whatever page the next URL of the frontier serves, extract_links returns
\* its links in document order
LinksInDocumentOrder ==
    (pc = "running" /\ LoopCond) =>
        \A anchors \in SeqsUpTo(Hrefs \ {h \in Hrefs : h.bad}, MaxLinks) :
            LET current_url == Head(urls_to_visit)
            IN InDocumentOrder(
                   ExtractFrom(anchors, current_url, Domain(base_url),
                               visited_urls \cup {current_url}),
                   anchors, current_url)

\* one step of a first-in-first-out frontier: the URL fetched is the head of
\* the frontier, the first one is the base URL, and whatever is enqueued goes
\* behind everything enqueued before
FifoStep ==
    /\ Fetched => LastRequest.url = Head(urls_to_visit)
    /\ (Fetched /\ requests = <<>>) => LastRequest.url = base_url
    /\ (pc = "running" /\ urls_to_visit' # urls_to_visit)
          => IsPrefix(Tail(urls_to_visit), urls_to_visit')
    /\ (Fetched /\ LastRequest.outcome = "ok" /\ pc' = "running")
          => \E anchors \in SeqsUpTo(Hrefs \ {h \in Hrefs : h.bad}, MaxLinks) :
                IsPrefix(Appended,
                         ExtractFrom(anchors, LastRequest.url, Domain(base_url),
                                     visited_urls'))

\* C23: the crawl is breadth-first with a first-in-first-out frontier: URLs
\* are fetched in the order they were appended to the frontier, starting with
\* the base URL, a link found on a page is fetched only after every URL
\* enqueued before it, and the links of one page are enqueued in document
\* order
C23_BreadthFirst == [][FifoStep]_vars /\ []LinksInDocumentOrder

\* three pages were fetched one after the other, the last two found as links,
\* and a link is still waiting in the frontier
C23_Witness ==
    /\ Len(requests) = 3
    /\ requests[1].url = base_url
    /\ requests[2].url # requests[1].url
    /\ requests[3].url \notin {requests[1].url, requests[2].url}
    /\ urls_to_visit # <<>>

\* a URL of the domain under analysis, http or https, that is no in-page anchor
Eligible(url) ==
    /\ url.netloc = Domain(base_url)
    /\ IsHttp(url)
    /\ ~url.frag

\* every link that extract_links would return for the next URL of the
\* frontier, whatever page it serves, is eligible and not yet visited; and
\* every URL of the frontier but the base URL is eligible
OnlyEligibleLinks ==
    /\ \A i \in 1..Len(urls_to_visit) :
          urls_to_visit[i] = base_url \/ Eligible(urls_to_visit[i])
    /\ (pc = "running" /\ LoopCond) =>
          \A anchors \in SeqsUpTo(Hrefs \ {h \in Hrefs : h.bad}, MaxLinks) :
             LET current_url == Head(urls_to_visit)
                 visited == visited_urls \cup {current_url}
                 links == ExtractFrom(anchors, current_url, Domain(base_url), visited)
             IN \A i \in 1..Len(links) :
                   Eligible(links[i]) /\ links[i] \notin visited

\* the links an analysed page puts in the frontier are eligible, were not
\* visited when extract_links ran, and the page itself is not among them
EnqueueStep ==
    (Fetched /\ LastRequest.outcome = "ok") =>
        \A i \in 1..Len(Appended) :
           /\ Eligible(Appended[i])
           /\ Appended[i] \notin visited_urls'
           /\ Appended[i] # LastRequest.url

\* C24: every URL extract_links returns is on the domain under analysis, is
\* http or https, does not come from a pure in-page anchor href and is not in
\* the visited set at the time of the call; so every URL of the frontier
\* other than the base URL meets the first three conditions, and the page
\* being analysed is never enqueued again by its own links
C24_OnlyEligibleUnvisitedLinks == []OnlyEligibleLinks /\ [][EnqueueStep]_vars

\* a second page was analysed, links wait in the frontier while the crawl
\* runs, and none of them is a visited URL
C24_Witness ==
    /\ Len(requests) >= 2
    /\ requests[2].outcome = "ok"
    /\ pc = "running"
    /\ urls_to_visit # <<>>
    /\ \A i \in 1..Len(urls_to_visit) : urls_to_visit[i] \notin visited_urls

(***************************************************************************)
(* Theme evidence and the derived themes                                   *)
(***************************************************************************)
\* every identifier with the child marker has an entry for its parent
ChildrenHaveParent(themes) ==
    \A t \in themes :
        HasTok(t.name, ChildMarker)
            => \E p \in themes : p.name = RemoveTok(t.name, ChildMarker)

\* the inferred entries of the theme evidence
Inferred(themes) == {t \in themes : t.kind = "inferred-parent"}

\* C25: after every asset check, whenever the theme evidence holds an
\* identifier with the marker '-child' it also holds an entry for the
\* identifier with the marker removed; the inferred parent entry is added only
\* when no entry with the parent identifier is present at that moment, and
\* there is at most one inferred entry per parent
C25_ChildThemeHasParentEntry ==
    /\ ChildrenHaveParent(ev.themes_detected)
    /\ \A asset_url \in AssetUrls :
          LET before == ev.themes_detected
              after == check_asset_for_plugin(ev, asset_url).themes_detected
              observed == before \cup {t \in after : t.kind = "url"}
          IN /\ ChildrenHaveParent(after)
             /\ \A p \in Inferred(after) \ before :
                   ~\E q \in observed : q.name = p.name
             /\ \A p, q \in Inferred(after) : p.name = q.name => p = q

\* the crawl has seen the child theme before the parent theme: the evidence
\* holds the child, the inferred parent and the observed parent
C25_Witness ==
    /\ \E t \in ev.themes_detected : HasTok(t.name, ChildMarker)
    /\ \E p \in Inferred(ev.themes_detected) :
          \E q \in ev.themes_detected : q.name = p.name /\ q.kind = "url"

\* C26: after the derivation main_theme and child_theme are never the same
\* identifier: when every pair of the theme evidence carries one and the same
\* identifier (one theme seen on several asset URLs), main_theme is that
\* identifier and child_theme stays absent
C26_MainAndChildDiffer ==
    pc = "done" =>
        /\ child_theme # None => main_theme # child_theme
        /\ Cardinality(ThemeNames(ev)) = 1
              => main_theme \in ThemeNames(ev) /\ child_theme = None

\* the 'Pages Analyzed' number of the report the finished crawl prints
PagesAnalyzed ==
    LET lines == generate_report(ev, iter_seed)
        header == CHOOSE i \in 1..Len(lines) : lines[i][1] = "pages"
    IN lines[header][2]

\* C27: the page count in the header of the report is the number of pages
\* that were fetched successfully and run through the detectors; URLs whose
\* fetch failed are not counted
C27_PagesAnalyzedCountsAnalysedPages ==
    pc = "done" =>
        /\ PagesAnalyzed = pages_visited
        /\ PagesAnalyzed = Cardinality(OkRequests)

(***************************************************************************)
(* split_markdown.py                                                       *)
(*                                                                         *)
(* A file is a sequence of pieces: "---", a line ending ("\n" or "\r\n")   *)
(* and runs of other text that hold neither.  md is the call:              *)
(*   input      the input file as it is on disk                            *)
(*   num_files  the argument                                               *)
(*   platform   "posix" or "nt": what os.linesep is                        *)
(*   written    the output files as they are on disk, in part order        *)
(*   raised     the exception that ended the call, "" when it returned     *)
(***************************************************************************)
MaxBlocks == 3
MaxParts == 4

Fence == "---"

\* f.read() of a file opened with open(input_file, "r"): universal newlines
\* turn every "\r\n" into "\n"
ReadText(bytes) ==
    [i \in 1..Len(bytes) |-> IF bytes[i] = "\r\n" THEN "\n" ELSE bytes[i]]

\* os.linesep
Linesep(platform) == IF platform = "nt" THEN "\r\n" ELSE "\n"

\* f.write(text) to a file opened with open(output_file, "w"): every "\n" is
\* written as os.linesep
WriteText(text, platform) ==
    [i \in 1..Len(text) |-> IF text[i] = "\n" THEN Linesep(platform) ELSE text[i]]

\* where the match of yaml_pattern that starts at piece p ends, 0 when none
\* starts there: "---", a newline, the shortest text that is followed by a
\* newline and "---"
MatchEnd(content, p) ==
    IF p + 1 <= Len(content) /\ content[p] = Fence /\ content[p + 1] = "\n"
    THEN LET closing == {q \in (p + 2)..(Len(content) - 1) :
                            content[q] = "\n" /\ content[q + 1] = Fence}
         IN IF closing = {} THEN 0
            ELSE (CHOOSE q \in closing : \A r \in closing : q <= r) + 1
    ELSE 0

RECURSIVE Finditer(_, _)
\* match.start() of the matches yaml_pattern.finditer finds from piece p on:
\* the matches do not overlap
Finditer(content, p) ==
    IF p > Len(content) THEN <<>>
    ELSE IF MatchEnd(content, p) = 0 THEN Finditer(content, p + 1)
    ELSE <<p - 1>> \o Finditer(content, MatchEnd(content, p) + 1)

RECURSIVE SplitFiles(_, _, _, _, _, _, _)
\* the loop `for i in range(num_files)` from file i on: content[start_pos:end_pos]
\* of each file
SplitFiles(content, yaml_matches, i, current_section, num_files, sections_per_file, remainder) ==
    IF i >= num_files THEN <<>>
    ELSE LET sections_in_this_file ==
                 sections_per_file + (IF i < remainder THEN 1 ELSE 0)
             start_pos == IF i = 0 THEN 0 ELSE yaml_matches[current_section + 1]
             next_section == current_section + sections_in_this_file
             end_pos == IF i = num_files - 1 THEN Len(content)
                        ELSE yaml_matches[next_section + 1]
         IN <<SubSeq(content, start_pos + 1, end_pos)>>
                \o SplitFiles(content, yaml_matches, i + 1, next_section,
                              num_files, sections_per_file, remainder)

\* split_markdown_file writing one file per section whatever was asked for
split_markdown_file_OneFilePerSection(content, requested) ==
    LET yaml_matches == Finditer(content, 1)
        total_sections == Len(yaml_matches)
        num_files == total_sections
    IN IF num_files = 0
       THEN [raised |-> "ZeroDivisionError", files |-> <<>>]
       ELSE [raised |-> "",
             files |-> SplitFiles(content, yaml_matches, 0, 0, num_files,
                                  total_sections \div num_files,
                                  total_sections % num_files)]

\* split_markdown_file on the text read: the text of each output file, or the
\* exception of the division by a num_files of zero
split_markdown_file(content, requested) ==
    LET yaml_matches == Finditer(content, 1)
        total_sections == Len(yaml_matches)
        num_files == IF total_sections < requested THEN total_sections
                     ELSE requested
    IN IF num_files = 0
       THEN [raised |-> "ZeroDivisionError", files |-> <<>>]
       ELSE [raised |-> "",
             files |-> SplitFiles(content, yaml_matches, 0, 0, num_files,
                                  total_sections \div num_files,
                                  total_sections % num_files)]

\* the frontmatter blocks of the inputs: with a body, without one, with an
\* empty frontmatter
Blocks ==
    { <<Fence, "\n", "title", "\n", Fence, "\n", "body", "\n">>,
      <<Fence, "\n", "title", "\n", Fence, "\n">>,
      <<Fence, "\n", "\n", Fence, "\n", "body", "\n">> }

Preambles == {<<>>, <<"intro", "\n">>}

RECURSIVE Flatten(_)
Flatten(seqs) == IF seqs = <<>> THEN <<>> ELSE Head(seqs) \o Flatten(Tail(seqs))

\* the input files: text before the first block or none, up to MaxBlocks
\* blocks, all line endings "\n" or all "\r\n"
Documents ==
    {WriteText(preamble \o Flatten(blocks), platform) :
        preamble \in Preambles, blocks \in SeqsUpTo(Blocks, MaxBlocks),
        platform \in {"posix", "nt"}}

InitMd ==
    /\ AnalyzerIdle
    /\ ai = Idle
    /\ sw = Idle
    /\ org = Idle
    /\ \E input \in Documents, num_files \in 1..MaxParts,
          platform \in {"posix", "nt"} :
          md = [pc |-> "start", input |-> input, num_files |-> num_files,
                platform |-> platform, written |-> <<>>, raised |-> ""]

\* one call of split_markdown_file
SplitMarkdownFile ==
    /\ md.pc = "start"
    /\ LET result == split_markdown_file(ReadText(md.input), md.num_files)
       IN md' = [md EXCEPT
                   !.pc = IF result.raised = "" THEN "returned" ELSE "raised",
                   !.raised = result.raised,
                   !.written = [i \in 1..Len(result.files) |->
                                   WriteText(result.files[i], md.platform)]]
    /\ UNCHANGED <<analyzerVars, ai, sw, org>>

NextMd == SplitMarkdownFile

SpecMd == InitMd /\ [][NextMd]_vars

\* the frontmatter sections of a file
SectionsOf(bytes) == Len(Finditer(ReadText(bytes), 1))

\* the parts are as many as asked for or as there are sections, and the
\* section counts of two parts differ by at most one
EvenParts ==
    /\ Len(md.written) = Min(md.num_files, SectionsOf(md.input))
    /\ \A i, j \in 1..Len(md.written) :
          SectionsOf(md.written[i]) - SectionsOf(md.written[j]) \in {-1, 0, 1}
    /\ SumSeq([i \in 1..Len(md.written) |-> SectionsOf(md.written[i])])
          = SectionsOf(md.input)

\* C28: split_markdown_file is lossless: for an input with at least one
\* frontmatter section and num_files >= 1 the parts are contiguous slices of
\* the input that do not overlap, and the output files put one after the
\* other in part order are the input file exactly; the parts are
\* min(num_files, sections) and the section counts of two parts differ by at
\* most one
C28_SplitLossless ==
    (md.pc # "start" /\ SectionsOf(md.input) >= 1 /\ md.num_files >= 1)
        => /\ md.pc = "returned"
           /\ Flatten(md.written) = md.input
           /\ EvenParts

\* C28 as the code has it: the output files put one after the other are the
\* text of the input with every line ending written as the line separator of
\* the platform, so they are the input file exactly when that is its line
\* ending; the parts are min(num_files, sections) and the section counts of
\* two parts differ by at most one
C28_SplitLosslessAsText ==
    (md.pc # "start" /\ SectionsOf(md.input) >= 1 /\ md.num_files >= 1)
        => /\ md.pc = "returned"
           /\ Flatten(md.written) = WriteText(ReadText(md.input), md.platform)
           /\ ReadText(Flatten(md.written)) = ReadText(md.input)
           /\ (\A i \in 1..Len(md.input) :
                  md.input[i] \in {"\n", "\r\n"} => md.input[i] = Linesep(md.platform))
                 => Flatten(md.written) = md.input
           /\ EvenParts

\* three sections after a preamble were split into two files, one with two
\* sections and one with one, on a platform that writes another line ending
C28_Witness ==
    /\ md.pc = "returned"
    /\ md.num_files = 2
    /\ SectionsOf(md.input) = 3
    /\ md.input[1] = "intro"
    /\ Len(md.written) = 2
    /\ SectionsOf(md.written[1]) = 2
    /\ Flatten(md.written) # md.input

\* C29: when the input has fewer frontmatter sections than files were asked
\* for, split_markdown_file writes one file per section and returns the list
\* of the files without raising, for every number of sections, zero included
C29_FewerSectionsOneFileEach ==
    (md.pc # "start" /\ SectionsOf(md.input) < md.num_files)
        => /\ md.pc = "returned"
           /\ md.raised = ""
           /\ Len(md.written) = SectionsOf(md.input)
           /\ \A i \in 1..Len(md.written) : SectionsOf(md.written[i]) = 1

\* C30: in the summary of the attachment organizer 'Errors' is the number of
\* files whose move failed (the entries of the 'failed' list) and 'Skipped
\* files' is the number of files skipped without an attempt (the entries of
\* the 'skipped' list): every file walked is counted in its bucket
C30_SummaryCountsBuckets ==
    org.pc = "done" =>
        /\ org.n_errors = Len(org.failed)
        /\ org.n_skipped = Len(org.skipped)

====
